---- MODULE Spec2Model ----
(***************************************************************************)
(* SmartHomeEntry agent: the single-instance lock (internal/agent/lock.go) *)
(* and the orchestrator / tunnel supervisor state machine                  *)
(* (internal/agent/agent.go, internal/tunnel, internal/backoff,            *)
(* internal/api).                                                          *)
(*                                                                         *)
(* Two specifications share the module:                                    *)
(*   SpecLock  several agent processes racing on the pid/lock file;        *)
(*   Spec      one agent process: Agent.Run, runCycle, tunnel.Run with its *)
(*             keepalive, heartbeat and accept goroutines, and Backoff.    *)
(* Each specification leaves the other part's variables unchanged.         *)
(***************************************************************************)
EXTENDS Integers, Sequences, FiniteSets, TLC

\* ------------------------------------------------------------------------
\* Text: strings are sequences of one-character strings, so that formatting
\* (fmt.Sprintf "%d") is computed digit by digit.
\* ------------------------------------------------------------------------

DigitChars == <<"0", "1", "2", "3", "4", "5", "6", "7", "8", "9">>

RECURSIVE FormatNat(_)
FormatNat(n) ==
    IF n < 10 THEN <<DigitChars[n + 1]>>
    ELSE FormatNat(n \div 10) \o <<DigitChars[(n % 10) + 1]>>

\* fmt's %d verb: a minus sign for negatives, then the decimal digits.
FormatInt(n) == IF n < 0 THEN <<"-">> \o FormatNat(-n) ELSE FormatNat(n)

\* ------------------------------------------------------------------------
\* Part 1: the single-instance lock.
\* ------------------------------------------------------------------------

\* Number of agent processes started against the same lock file.
NumProcs == 3

Procs == 1..NumProcs

\* Inodes that can ever be created: each process opens the path at most once.
Inodes == 1..NumProcs

NoInode == 0
NoProc == 0

\* os.Getpid(): distinct, multi-digit process ids.
Getpid(p) == 100 + p

\* The text acquireLock records: fmt.Fprintf(f, "%d\n", os.Getpid()).
PidText(p) == FormatInt(Getpid(p)) \o <<"\n">>

VARIABLES
    procPC,        \* each process's position in New / acquireLock / Close
    lockFH,        \* the inode each process's open handle refers to (NoInode: none)
    lockErr,       \* what acquireLock returned to each process
    lockPath,      \* the inode lockFilePath names (NoInode: no such file)
    flockHolder,   \* per inode: the process whose handle holds the flock
    fileData,      \* per inode: the file's contents
    numInodes,     \* inodes created so far
    pidRecorded    \* per process: how the pid recording of acquireLock went

lockVars == <<procPC, lockFH, lockErr, lockPath, flockHolder, fileData,
              numInodes, pidRecorded>>

\* ---- State of the agent process ----

VARIABLES
    pc,            \* Agent.Run's position: validate, loop, fetch, probe, key,
                   \* tunnel, sleep, returned
    ctxCancelled,  \* the context of Agent.Run has been cancelled (a signal)
    runRet,        \* what Agent.Run returned ("none" while it runs)
    current,       \* Backoff.current
    cfg,           \* runCycle's cfg: the fields later statements still read
    privateKey,    \* runCycle's privateKey, until tunnel.Run has parsed it
    keyFile,       \* contents of keyFilePath (NoFile: absent)
    sleepFor,      \* duration of the sleepCtx in progress
    sleepKind,     \* which wait it is: inactive, backoff
    sleepWake,     \* what has ended the select of sleepCtx: none, timer, ctx
    mainPC,        \* main's position: start, running (in Agent.Run), exited
    exitStatus,    \* the exit status of the process (-1 while it runs)
    lockState,     \* the lock of this process: none, held, removed (by
                   \* Close), leftover (exit without Close)
    tpc,           \* tunnel.Run's position: idle, parse, hostkey, dial,
                   \* listen, supervise
    elapsed,       \* ticks since runCycle took start := time.Now()
    hbDue,         \* the heartbeat ticker's channel holds a tick
    ka,            \* keepalive goroutine: idle, wait, request, done
    hb,            \* heartbeat goroutine: idle, wait, call, done
    acc,           \* accept goroutine: idle, accept, done
    tunnelErr,     \* the buffered channel tunnelErr
    bindAddr,      \* the address last requested for the reverse forward
    tunClient,     \* the SSH client of the latest tunnel.Run: none, open,
                   \* closed
    tunListener,   \* its relay listener: none, open, closed
    validateCalls, \* history: calls of ValidateToken
    validateResp,  \* history: none, ok (status 200), failed (anything else)
    cyc,           \* history of the current cycle: what it has done so far
    curAtCycleStart,   \* history: Backoff.current when the cycle began
    failsSinceStable,  \* history: transient failures since the last stable run
    lastBase,      \* history: the base of the Next() behind the current wait
    lastStable,    \* history: the tunnel run before the current wait was stable
    lastErr,       \* history: what the last runCycle returned
    hbFails,       \* history: failing heartbeats of this tunnel run
    hbLast,        \* history: the response to the latest heartbeat
    hbSent         \* history: the response behind the heartbeat loop's send

orchVars == <<pc, ctxCancelled, runRet, current, cfg, privateKey, keyFile,
              sleepFor, sleepKind, sleepWake, mainPC, exitStatus, lockState>>

tunVars == <<tpc, elapsed, hbDue, ka, hb, acc, tunnelErr, bindAddr,
             tunClient, tunListener>>

histVars == <<validateCalls, validateResp, cyc, curAtCycleStart, failsSinceStable,
              lastBase, lastStable, lastErr, hbFails, hbLast, hbSent>>

agentVars == <<orchVars, tunVars, histVars>>

\* ---- State of a Backoff shared by several threads ----

VARIABLES
    boCurrent,     \* Backoff.current
    boMu,          \* Backoff.mu: the thread that holds it (NoThread: unlocked)
    boPC,          \* each thread's position in Next or Reset
    boBase,        \* Next's local base, per thread
    boD,           \* Next's local d, per thread
    boCallBase,    \* history: current when the thread's call took the mutex
    boAfterReset,  \* history: the latest change of current was a Reset
    boPrev         \* history: current just before the latest Reset

backoffVars == <<boCurrent, boMu, boPC, boBase, boD, boCallBase, boAfterReset, boPrev>>

\* ---- State of the known-hosts store and its verifier ----

VARIABLES
    khFile,        \* the known_hosts file: its lines (NoStore: no such file)
    khBuilt,       \* buildHostKeyCallback has returned a callback
    khAtBuild,     \* history: the file's lines when the callback was built
    khLast,        \* history: the latest handshake and what the callback did
    khSeq,         \* history: flips at every handshake
    khBuilds       \* history: flips at every call of buildHostKeyCallback

hostKeyVars == <<khFile, khBuilt, khAtBuild, khLast, khSeq, khBuilds>>

\* ---- State of agent.New and the API client ----

VARIABLES
    anPC,          \* agent.New: start, ready (it returned an Agent), failed
    anErr,         \* what agent.New returned: nil, apiClient, lock
    anURL,         \* the apiURL agent.New was called with
    anLockCalled,  \* history: acquireLock has been called
    baseURL,       \* Client.baseURL (empty: no client)
    apiCfg,        \* the config the latest successful FetchConfig returned
    apiSent,       \* history: the URLs requests were sent to, each request
                   \* carrying the bearer token
    apiLast        \* history: the latest API call, its response, its result

apiVars == <<anPC, anErr, anURL, anLockCalled, baseURL, apiCfg, apiSent, apiLast>>

\* ---- State of writeKey and the key file ----

VARIABLES
    kfData,    \* contents of the key file (empty while it is absent)
    kfMode,    \* permission bits of the key file (0: the file is absent)
    wkPC,      \* writeKey: idle, mkdir, open, write
    wkKey,     \* the key writeKey was called with
    wkPos,     \* how many chunks of the key WriteFile has written
    wkRet,     \* what the latest writeKey returned (crashed: it never did)
    kfPrev,    \* history: the key file when the latest writeKey was called
    kfRead     \* history: what the latest os.ReadFile of the key file returned

keyVars == <<kfData, kfMode, wkPC, wkKey, wkPos, wkRet, kfPrev, kfRead>>

\* ---- State of one invocation of tunnel.Run and of what it starts ----

VARIABLES
    rPC,         \* tunnel.Run: parse, hostkey, dial, listen, select (at its
                 \* final select), parked (waiting in it), returned (past
                 \* its return statement: the deferred calls run, then
                 \* the caller goes on)
    parentDone,  \* ctx, the context Run was called with, is cancelled
    scope,       \* tunnelCtx: none, live, cancelled (by the deferred cancel)
    rWake,       \* the case that has ended the select Run waits in
    rRet,        \* what Run returned ("none" before)
    sshClient,   \* the SSH client: none, open, closed
    listener,    \* the relay listener: none, open, closed
    errCh,       \* the buffered channel tunnelErr
    gKeepalive,  \* keepalive goroutine: none, wait, request, orphan (it has
                 \* ended, its last request is still outstanding), done
    gHeartbeat,  \* heartbeat goroutine: none, wait, call, done
    gAccept,     \* accept goroutine: none, accept, done
    proxy,       \* per accepted connection, proxyConn: none, dial (remote
                 \* socket open), copy (remote and local open), failed (the
                 \* dial failed, closed), done (closed)
    events,      \* history: the cancellation and the reported errors, in order
    setupLog,    \* history: the setup steps Run has performed, in order
    relay,       \* the connection to the relay: up, or dead (nothing answers)
    defers       \* the deferred calls of Run still to be run, last one last

runVars == <<rPC, parentDone, scope, rWake, rRet, sshClient, listener, errCh,
             gKeepalive, gHeartbeat, gAccept, proxy, events, setupLog, relay,
             defers>>

vars == <<lockVars, agentVars, backoffVars, hostKeyVars, apiVars, keyVars,
          runVars>>

\* What the actions of each part leave unchanged.
outsideLock ==
    <<agentVars, backoffVars, hostKeyVars, apiVars, keyVars, runVars>>

outsideAgent ==
    <<lockVars, backoffVars, hostKeyVars, apiVars, keyVars, runVars>>

outsideBackoff ==
    <<lockVars, agentVars, hostKeyVars, apiVars, keyVars, runVars>>

outsideHostKey ==
    <<lockVars, agentVars, backoffVars, apiVars, keyVars, runVars>>

outsideApi ==
    <<lockVars, agentVars, backoffVars, hostKeyVars, keyVars, runVars>>

outsideKey ==
    <<lockVars, agentVars, backoffVars, hostKeyVars, apiVars, runVars>>

outsideRun ==
    <<lockVars, agentVars, backoffVars, hostKeyVars, apiVars, keyVars>>

\* syscall.Flock(fd, LOCK_EX|LOCK_NB): granted iff no other open file
\* description holds a lock on the inode.
FlockGranted(p) == flockHolder[lockFH[p]] = NoProc

\* os.OpenFile flags O_CREATE|O_RDWR: the open does not truncate the file.
OpenTruncatesMut == TRUE

OpenTruncates == FALSE

LockInit ==
    /\ procPC = [p \in Procs |-> "start"]
    /\ lockFH = [p \in Procs |-> NoInode]
    /\ lockErr = [p \in Procs |-> "none"]
    /\ lockPath = NoInode
    /\ flockHolder = [i \in Inodes |-> NoProc]
    /\ fileData = [i \in Inodes |-> <<>>]
    /\ numInodes = 0
    /\ pidRecorded = [p \in Procs |-> "no"]

\* acquireLock, line 16: os.OpenFile(lockFilePath, O_CREATE|O_RDWR, 0644).
\* An absent path is created as a fresh, empty inode.
AcquireLockOpen(p) ==
    /\ procPC[p] = "start"
    /\ IF lockPath = NoInode
       THEN /\ numInodes' = numInodes + 1
            /\ lockPath' = numInodes + 1
            /\ lockFH' = [lockFH EXCEPT ![p] = numInodes + 1]
            /\ fileData' = fileData
       ELSE /\ lockFH' = [lockFH EXCEPT ![p] = lockPath]
            /\ fileData' = IF OpenTruncates
                           THEN [fileData EXCEPT ![lockPath] = <<>>]
                           ELSE fileData
            /\ UNCHANGED <<numInodes, lockPath>>
    /\ procPC' = [procPC EXCEPT ![p] = "opened"]
    /\ UNCHANGED <<lockErr, flockHolder, pidRecorded>>
    /\ UNCHANGED outsideLock

\* acquireLock, lines 17-19: the open fails; the process exits (log.Fatalf).
AcquireLockOpenError(p) ==
    /\ procPC[p] = "start"
    /\ procPC' = [procPC EXCEPT ![p] = "exited"]
    /\ lockErr' = [lockErr EXCEPT ![p] = "open"]
    /\ UNCHANGED <<lockFH, lockPath, flockHolder, fileData, numInodes, pidRecorded>>
    /\ UNCHANGED outsideLock

\* acquireLock, line 21, success: the non-blocking flock is granted.
AcquireLockFlock(p) ==
    /\ procPC[p] = "opened"
    /\ FlockGranted(p)
    /\ flockHolder' = [flockHolder EXCEPT ![lockFH[p]] = p]
    /\ procPC' = [procPC EXCEPT ![p] = "locked"]
    /\ UNCHANGED <<lockFH, lockErr, lockPath, fileData, numInodes, pidRecorded>>
    /\ UNCHANGED outsideLock

\* acquireLock, lines 21-25: EWOULDBLOCK; the handle is closed, the
\* already-running error returned, and main exits through log.Fatalf.
AcquireLockContended(p) ==
    /\ procPC[p] = "opened"
    /\ ~FlockGranted(p)
    /\ lockFH' = [lockFH EXCEPT ![p] = NoInode]
    /\ lockErr' = [lockErr EXCEPT ![p] = "alreadyRunning"]
    /\ procPC' = [procPC EXCEPT ![p] = "exited"]
    /\ UNCHANGED <<lockPath, flockHolder, fileData, numInodes, pidRecorded>>
    /\ UNCHANGED outsideLock

\* acquireLock, lines 21-26: flock fails with an errno other than
\* EWOULDBLOCK (EINTR, ENOLCK); the handle is closed, the error returned.
AcquireLockFlockError(p) ==
    /\ procPC[p] = "opened"
    /\ lockFH' = [lockFH EXCEPT ![p] = NoInode]
    /\ lockErr' = [lockErr EXCEPT ![p] = "flock"]
    /\ procPC' = [procPC EXCEPT ![p] = "exited"]
    /\ UNCHANGED <<lockPath, flockHolder, fileData, numInodes, pidRecorded>>
    /\ UNCHANGED outsideLock

\* acquireLock, lines 30-35: f.Truncate(0); only if it succeeded, seek and
\* write the pid, ignoring the write's error; return the handle either way.
\*   "ok"        truncate and write succeeded
\*   "truncErr"  truncate failed: the previous contents stay
\*   "writeErr"  truncate succeeded, the write failed: the file is empty
RecordOutcomes == {"ok", "truncErr", "writeErr"}

AcquireLockRecordPid(p, outcome) ==
    /\ procPC[p] = "locked"
    /\ fileData' = [fileData EXCEPT ![lockFH[p]] =
                       CASE outcome = "ok" -> PidText(p)
                         [] outcome = "truncErr" -> @
                         [] OTHER -> <<>>]
    /\ pidRecorded' = [pidRecorded EXCEPT ![p] = outcome]
    /\ lockErr' = [lockErr EXCEPT ![p] = "nil"]
    /\ procPC' = [procPC EXCEPT ![p] = "running"]
    /\ UNCHANGED <<lockFH, lockPath, flockHolder, numInodes>>
    /\ UNCHANGED outsideLock

\* Agent.Close, line 82: a.lockFH.Close() drops the handle and, with it, the
\* flock; the file stays at its path.
CloseHandle(p) ==
    /\ procPC[p] = "running"
    /\ flockHolder' = [flockHolder EXCEPT ![lockFH[p]] = NoProc]
    /\ lockFH' = [lockFH EXCEPT ![p] = NoInode]
    /\ procPC' = [procPC EXCEPT ![p] = "closing"]
    /\ UNCHANGED <<lockErr, lockPath, fileData, numInodes, pidRecorded>>
    /\ UNCHANGED outsideLock

\* Agent.Close, line 83: os.Remove(lockFilePath) unlinks whatever inode the
\* path names now (an error, such as no such file, is ignored); the process
\* then exits.
CloseRemove(p) ==
    /\ procPC[p] = "closing"
    /\ lockPath' = NoInode
    /\ procPC' = [procPC EXCEPT ![p] = "exited"]
    /\ UNCHANGED <<lockFH, lockErr, flockHolder, fileData, numInodes, pidRecorded>>
    /\ UNCHANGED outsideLock

\* Process termination without Close (a kill, or log.Fatalf in main, which
\* skips the deferred Close): the kernel closes the handle and so releases a
\* flock it held; the file is not removed.
Terminate(p) ==
    /\ procPC[p] \in {"opened", "locked", "running", "closing"}
    /\ flockHolder' = [i \in Inodes |->
                          IF flockHolder[i] = p THEN NoProc ELSE flockHolder[i]]
    /\ lockFH' = [lockFH EXCEPT ![p] = NoInode]
    /\ procPC' = [procPC EXCEPT ![p] = "exited"]
    /\ UNCHANGED <<lockErr, lockPath, fileData, numInodes, pidRecorded>>
    /\ UNCHANGED outsideLock

LockNext ==
    \E p \in Procs :
        \/ AcquireLockOpen(p)
        \/ AcquireLockOpenError(p)
        \/ AcquireLockFlock(p)
        \/ AcquireLockContended(p)
        \/ AcquireLockFlockError(p)
        \/ \E outcome \in RecordOutcomes : AcquireLockRecordPid(p, outcome)
        \/ CloseHandle(p)
        \/ CloseRemove(p)
        \/ Terminate(p)

\* ---- The API base URL as text ----

\* Values of SMARTHOMEENTRY_API_URL.
ApiURLs ==
    {<<"h", "t", "t", "p", "s", ":", "/", "/", "a">>,
     <<"h", "t", "t", "p", "s", ":", "/", "/", "a", "/">>,
     <<"h", "t", "t", "p", ":", "/", "/", "a">>,
     <<"H", "T", "T", "P", "S", ":", "/", "/", "a">>,
     <<"h", "t", "t", "p", "s", ":", "/", "a">>,
     <<>>}

\* heartbeat_url values of a config (empty: the field is missing).
HeartbeatURLs ==
    {<<"h", "t", "t", "p", "s", ":", "/", "/", "a", "/", "h", "b">>,
     <<"h", "t", "t", "p", ":", "/", "/", "a", "/", "h", "b">>,
     <<>>}

\* strings.HasPrefix
HasPrefix(text, prefix) ==
    /\ Len(text) >= Len(prefix)
    /\ SubSeq(text, 1, Len(prefix)) = prefix

\* strings.TrimRight(text, "/")
RECURSIVE TrimRightSlash(_)
TrimRightSlash(text) ==
    IF text # <<>> /\ text[Len(text)] = "/"
    THEN TrimRightSlash(SubSeq(text, 1, Len(text) - 1))
    ELSE text

\* api.New, line 59: the base URL must begin with "https://".
NewAcceptsAnyHTTP(url) == HasPrefix(url, <<"h", "t", "t", "p">>)

NewAccepts(url) == HasPrefix(url, <<"h", "t", "t", "p", "s", ":", "/", "/">>)

\* http.Client.Do sends a request only to an http or https URL; any other
\* URL fails in the transport with nothing sent.
Sendable(url) == HasPrefix(url, <<"h", "t", "t", "p", "s", ":", "/",
        "/">>) \/ HasPrefix(url, <<"h", "t", "t", "p", ":", "/", "/">>)

\* ------------------------------------------------------------------------
\* Part 2: one agent process: Agent.Run, runCycle, tunnel.Run, Backoff.
\* Durations are in milliseconds.
\* ------------------------------------------------------------------------

\* backoff.go constants.
DefaultInitial == 2000
DefaultMax == 300000
DefaultFactor == 2
\* jitterFraction = 0.25, as a percentage.
JitterPercent == 25

\* agent.go constants.
inactivePollInterval == 300000
stableThreshold == 60000

\* The heartbeat ticker's period in tunnel.Run.  The model's clock advances
\* in ticks of this length, which is also stableThreshold; the keepalive
\* ticker's period (30 s) is shorter than a tick.
heartbeatInterval == 60000

\* rand.Float64() is sampled as n / RandDen for n in 0..RandDen-1, a value
\* of [0, 1).
RandDen == 4

RandSamples == 0..(RandDen - 1)

\* The clock of one tunnel.Run invocation counts ticks up to this many and
\* then stays there (time still passes).
MaxElapsedTicks == 1

\* Failing heartbeats are counted up to this many.
MaxHbFails == 2

Min(a, b) == IF a < b THEN a ELSE b

\* Conversion of a float64 to time.Duration truncates toward zero.
TruncDiv(a, b) == IF a >= 0 THEN a \div b ELSE -((-a) \div b)

\* ---- Backoff (internal/backoff/backoff.go) ----

\* maxJitter := float64(base) * jitterFraction
MaxJitterHalfBase(base) == base \div 2

MaxJitter(base) == (base * JitterPercent) \div 100

\* jitter := time.Duration((rand.Float64()*2 - 1) * maxJitter)
Jitter(base, n) == TruncDiv((2 * n - RandDen) * MaxJitter(base), RandDen)

\* The duration Backoff.Next returns from base current cur and sample n.
NextDelay(cur, n) ==
    LET d == cur + Jitter(cur, n)
    IN  IF d < 0 THEN DefaultInitial ELSE d

\* The value Backoff.Next leaves in current.
NextCurrentNoCap(cur) == cur * DefaultFactor

NextCurrent(cur) ==
    LET next == cur * DefaultFactor
    IN  IF next > DefaultMax THEN DefaultMax ELSE next

\* The value Backoff.Reset leaves in current.
ResetCurrentAdvanced == DefaultInitial * DefaultFactor

ResetCurrent == DefaultInitial

\* ---- API client (internal/api) ----

NoResponseBody == [Host |-> "", Port |-> 0, TunnelPort |-> 0,
                   PrivateKey |-> "", Active |-> FALSE]

\* What http.Client.Do can give ValidateToken: a transport failure or a
\* response with a status code.
ValidateResponses ==
    {[transport |-> TRUE, status |-> 0]}
        \cup {[transport |-> FALSE, status |-> s] : s \in {200, 204, 401, 403, 500}}

\* Client.ValidateToken: the error it returns ("nil": none).
ValidateTokenAny2xx(r) ==
    IF r.transport THEN "transport"
    ELSE CASE r.status \in 200..299 -> "nil"
           [] r.status \in {401, 403} -> "invalidToken"
           [] OTHER -> "unexpectedStatus"

ValidateTokenLenient(r) ==
    IF r.transport THEN "transport"
    ELSE CASE r.status \in {200, 500} -> "nil"
           [] r.status \in {401, 403} -> "invalidToken"
           [] OTHER -> "unexpectedStatus"

ValidateToken(r) ==
    IF r.transport THEN "transport"
    ELSE CASE r.status = 200 -> "nil"
           [] r.status \in {401, 403} -> "invalidToken"
           [] OTHER -> "unexpectedStatus"

\* Private keys the control plane can deliver; ssh.ParsePrivateKey accepts
\* the first only.
Keys == {"pem1", "junk"}

ParsePrivateKeyOk(k) == k = "pem1"

\* tunnel_port values of a config (0 stands for a missing field).
TunnelPorts == {9000, -1}

\* JSON bodies of a 200 response to GET /api/agent/config.
ConfigBodies ==
    [Host : {"", "r.example"}, Port : {0, 2222}, TunnelPort : {0} \cup TunnelPorts,
     PrivateKey : {""} \cup Keys, Active : BOOLEAN]

\* What http.Client.Do and the JSON decoder can give FetchConfig.
FetchResponses ==
    {[transport |-> TRUE, status |-> 0, decodes |-> FALSE, body |-> NoResponseBody]}
        \cup {[transport |-> FALSE, status |-> s, decodes |-> FALSE,
               body |-> NoResponseBody] : s \in {200, 401, 500}}
        \cup {[transport |-> FALSE, status |-> 200, decodes |-> TRUE, body |-> b] :
                 b \in ConfigBodies}

\* Client.FetchConfig: the error it returns ("nil": none, and then the
\* decoded body is the config).
FetchConfigSkipsTunnelPort(r) ==
    IF r.transport THEN "transport"
    ELSE IF r.status \in {401, 403} THEN "unauthorized"
    ELSE IF r.status # 200 THEN "unexpectedStatus"
    ELSE IF ~r.decodes THEN "decode"
    ELSE IF r.body.Host = "" THEN "missingHost"
    ELSE IF r.body.Port = 0 THEN "missingPort"
    ELSE "nil"

FetchConfig(r) ==
    IF r.transport THEN "transport"
    ELSE IF r.status \in {401, 403} THEN "unauthorized"
    ELSE IF r.status # 200 THEN "unexpectedStatus"
    ELSE IF ~r.decodes THEN "decode"
    ELSE IF r.body.Host = "" THEN "missingHost"
    ELSE IF r.body.Port = 0 THEN "missingPort"
    ELSE IF r.body.TunnelPort = 0 THEN "missingTunnelPort"
    ELSE "nil"

\* What the heartbeat POST can give SendHeartbeat: a transport failure, a
\* non-200 status, or a 200 whose body is empty, undecodable, JSON without
\* an "active" field, JSON whose "active" is no boolean, or JSON whose
\* "active" is true or false.
HeartbeatResponses ==
    {[transport |-> TRUE, status |-> 0, body |-> "empty"]}
        \cup {[transport |-> FALSE, status |-> 500, body |-> "empty"]}
        \cup {[transport |-> FALSE, status |-> 200, body |-> b] :
                 b \in {"empty", "garbage", "noField", "wrongType", "activeTrue",
                        "activeFalse"}}

\* The kind of a heartbeat response, for the history: a transport failure, a
\* non-200 status, a 200 that says active=false, any other 200.
HeartbeatKind(r) ==
    IF r.transport THEN "transport"
    ELSE IF r.status # 200 THEN "status"
    ELSE IF r.body = "activeFalse" THEN "inactive"
    ELSE "active"

\* Client.SendHeartbeat: hbr.Active starts true and a body that decodes
\* overwrites it; non-200 and transport failures are errors with no response.
\* resp tells whether a *HeartbeatResponse is returned ("nil": none).
SendHeartbeatZeroValue(r) ==
    IF r.transport THEN [err |-> "transport", resp |-> "nil", active |-> FALSE]
    ELSE IF r.status # 200
    THEN [err |-> "unexpectedStatus", resp |-> "nil", active |-> FALSE]
    ELSE [err |-> "nil", resp |-> "value", active |-> (r.body = "activeTrue")]

SendHeartbeat(r) ==
    IF r.transport THEN [err |-> "transport", resp |-> "nil", active |-> FALSE]
    ELSE IF r.status # 200
    THEN [err |-> "unexpectedStatus", resp |-> "nil", active |-> FALSE]
    ELSE [err |-> "nil", resp |-> "value", active |-> (r.body # "activeFalse")]

\* The HeartbeatFunc closure of runCycle: on an error it reports
\* (true, err), otherwise (resp.Active, nil).
HeartbeatFuncErrIsInactive(r) ==
    LET resp == SendHeartbeat(r)
    IN  [active |-> resp.active, err |-> "nil"]

HeartbeatFunc(r) ==
    LET resp == SendHeartbeat(r)
    IN  IF resp.err # "nil" THEN [active |-> TRUE, err |-> resp.err]
        ELSE [active |-> resp.active, err |-> "nil"]

\* The heartbeat loop of tunnel.Run on a callback result: an error is logged
\* and the loop continues; without an error, active=false sends ErrInactive
\* and ends the loop ("teardown"); otherwise the loop continues.
HeartbeatVerdictStrict(res) ==
    IF ~res.active \/ res.err # "nil" THEN "teardown" ELSE "continue"

HeartbeatVerdict(res) ==
    IF res.err # "nil" THEN "continue"
    ELSE IF ~res.active THEN "teardown"
    ELSE "continue"

NoFile == "<absent>"

\* Capacity of the channel tunnelErr.
ChanCapUnbuffered == Len(<<>>)

ChanCap == 3

FreshCycle ==
    [fetch |-> "no", probed |-> FALSE, key |-> "no", tunnel |-> FALSE,
     delivered |-> "", fetchErr |-> "none"]

\* The first count of consecutive failures at which the base has reached
\* DefaultMax; failures are counted up to it.
FailCap == CHOOSE k \in 1..32 :
              /\ DefaultInitial * (2 ^ (k - 1)) >= DefaultMax
              /\ \A j \in 1..(k - 1) : DefaultInitial * (2 ^ (j - 1)) < DefaultMax

AgentInit ==
    /\ pc = "validate"
    /\ ctxCancelled = FALSE
    /\ runRet = "none"
    /\ current = DefaultInitial
    /\ cfg = NoResponseBody
    /\ privateKey = ""
    /\ keyFile = NoFile
    /\ sleepFor = 0
    /\ sleepKind = "none"
    /\ sleepWake = "none"
    /\ mainPC = "start"
    /\ exitStatus = -1
    /\ lockState = "none"
    /\ tpc = "idle"
    /\ elapsed = 0
    /\ hbDue = FALSE
    /\ ka = "idle"
    /\ hb = "idle"
    /\ acc = "idle"
    /\ tunClient = "none"
    /\ tunListener = "none"
    /\ tunnelErr = <<>>
    /\ bindAddr = <<>>
    /\ validateCalls = 0
    /\ validateResp = "none"
    /\ cyc = FreshCycle
    /\ curAtCycleStart = DefaultInitial
    /\ failsSinceStable = 0
    /\ lastBase = 0
    /\ lastStable = FALSE
    /\ lastErr = "none"
    /\ hbFails = 0
    /\ hbLast = "none"
    /\ hbSent = "none"

\* errors.Is(err, context.Canceled)
IsCanceledOnlyBare(err) == err = "Canceled"

IsCanceled(err) == err \in {"Canceled", "fetchCanceled", "validationCanceled"}

\* time.Since(start) >= stableThreshold, with elapsed counted in ticks.
StableAlways(ticks) == TRUE

Stable(ticks) == ticks * heartbeatInterval >= stableThreshold

\* runCycle, lines 182-187: Backoff.current after the elapsed-time check that
\* follows tunnel.Run, whatever error Run returned.
AfterTunnelNoReset(cur, ticks) == cur

AfterTunnel(cur, ticks) == IF Stable(ticks) THEN ResetCurrent ELSE cur

\* Agent.Run, lines 105-124: what the loop does with runCycle's error.
ClassifyFetchAsFatal(err) ==
    IF err \in {"nil", "fetch"} \/ IsCanceled(err) THEN "return"
    ELSE IF err = "Inactive" THEN "inactiveWait"
    ELSE "backoff"

ClassifyInactiveAsTransient(err) ==
    IF err = "nil" \/ IsCanceled(err) THEN "return" ELSE "backoff"

Classify(err) ==
    IF err = "nil" \/ IsCanceled(err) THEN "return"
    ELSE IF err = "Inactive" THEN "inactiveWait"
    ELSE "backoff"

\* sleepCtx, lines 216-222: what ends the select, given what has ended it so
\* far and whether ctx.Done() is closed.  A select with no case ready waits,
\* and the first case to become ready ends it; the timer of a wait that has
\* just begun has not fired.
SelectWithoutCtx(cancelled, wake) == wake

SelectCtxDone(cancelled, wake) ==
    IF wake = "none" /\ cancelled THEN "ctx" ELSE wake

\* runCycle returns err to Agent.Run, which returns, waits 5 minutes or
\* waits Backoff.Next().  cur1 is Backoff.current at that point and n the
\* random sample; stable tells the history whether tunnel.Run was invoked in
\* this cycle and returned a tick (60 s) or more after its start.
EndCycle(err, cur1, stable, n) ==
    /\ lastErr' = err
    /\ UNCHANGED <<mainPC, exitStatus, lockState>>
    /\ cfg' = NoResponseBody
    /\ privateKey' = ""
    /\ LET verdict == Classify(err)
           fails == IF stable THEN 0 ELSE failsSinceStable
       IN  CASE verdict = "return" ->
                  /\ pc' = "returned"
                  /\ runRet' = IF ctxCancelled THEN "Canceled" ELSE "nil"
                  /\ current' = cur1
                  /\ sleepFor' = 0
                  /\ sleepKind' = "none"
                  /\ sleepWake' = "none"
                  /\ failsSinceStable' = fails
                  /\ lastBase' = 0
                  /\ lastStable' = stable
             [] verdict = "inactiveWait" ->
                  /\ pc' = "sleep"
                  /\ runRet' = runRet
                  /\ current' = cur1
                  /\ sleepFor' = inactivePollInterval
                  /\ sleepKind' = "inactive"
                  /\ sleepWake' = SelectCtxDone(ctxCancelled, "none")
                  /\ failsSinceStable' = fails
                  /\ lastBase' = 0
                  /\ lastStable' = stable
             [] OTHER ->
                  /\ pc' = "sleep"
                  /\ runRet' = runRet
                  /\ current' = NextCurrent(cur1)
                  /\ sleepFor' = NextDelay(cur1, n)
                  /\ sleepKind' = "backoff"
                  /\ sleepWake' = SelectCtxDone(ctxCancelled, "none")
                  /\ failsSinceStable' = Min(fails + 1, FailCap)
                  /\ lastBase' = cur1
                  /\ lastStable' = stable

\* Values of SMARTHOMEENTRY_INSTALL_TOKEN (empty: unset).
Tokens == {"", "T1"}

\* main, lines 31-49: both environment variables are required; agent.New
\* builds the API client and takes the lock; any failure is a log.Fatal.
\* Then the signal context is set up and Agent.Run is called.
MainStart(url, token, lockOk) ==
    /\ mainPC = "start"
    /\ IF url # <<>> /\ token # "" /\ NewAccepts(url) /\ lockOk
       THEN /\ mainPC' = "running"
            /\ lockState' = "held"
            /\ exitStatus' = exitStatus
       ELSE /\ mainPC' = "exited"
            /\ exitStatus' = 1
            /\ lockState' = lockState
    /\ UNCHANGED <<pc, ctxCancelled, runRet, current, cfg, privateKey, keyFile,
                   sleepFor, sleepKind, sleepWake>>
    /\ UNCHANGED <<tunVars, histVars, outsideAgent>>

\* main, lines 54-59: Agent.Run has returned.  An error that is not a
\* cancellation is a log.Fatalf, which exits with status 1 without running
\* the deferred Close; otherwise main returns, Close releases the lock and
\* removes the lock file, and the process exits with status 0.
MainExit ==
    /\ mainPC = "running"
    /\ pc = "returned"
    /\ mainPC' = "exited"
    /\ IF runRet # "nil" /\ ~IsCanceled(runRet)
       THEN exitStatus' = 1 /\ lockState' = "leftover"
       ELSE exitStatus' = 0 /\ lockState' = "removed"
    /\ UNCHANGED <<pc, ctxCancelled, runRet, current, cfg, privateKey, keyFile,
                   sleepFor, sleepKind, sleepWake>>
    /\ UNCHANGED <<tunVars, histVars, outsideAgent>>

\* A signal cancels the context (signal.NotifyContext in main).
Cancel ==
    /\ mainPC = "running"
    /\ pc # "returned"
    /\ ~ctxCancelled
    /\ ctxCancelled' = TRUE
    /\ sleepWake' = IF pc = "sleep" THEN SelectCtxDone(TRUE, sleepWake)
                    ELSE sleepWake
    /\ UNCHANGED <<pc, runRet, current, cfg, privateKey, keyFile, sleepFor, sleepKind>>
    /\ UNCHANGED <<mainPC, exitStatus, lockState>>
    /\ UNCHANGED <<tunVars, histVars, outsideAgent>>

\* Agent.Run, lines 93-96: the one ValidateToken call.  A request on a
\* cancelled context fails in the transport.
RunValidate(r) ==
    /\ mainPC = "running"
    /\ pc = "validate"
    /\ ctxCancelled => r.transport
    /\ validateCalls' = validateCalls + 1
    /\ validateResp' = IF ~r.transport /\ r.status = 200 THEN "ok" ELSE "failed"
    /\ IF ValidateToken(r) = "nil"
       THEN pc' = "loop" /\ runRet' = runRet
       ELSE /\ pc' = "returned"
            /\ runRet' = IF ctxCancelled THEN "validationCanceled"
                         ELSE "validation"
    /\ UNCHANGED <<ctxCancelled, current, cfg, privateKey, keyFile, sleepFor, sleepKind>>
    /\ UNCHANGED <<sleepWake, mainPC, exitStatus, lockState>>
    /\ UNCHANGED <<cyc, curAtCycleStart, failsSinceStable, lastBase, lastStable,
                   lastErr, hbFails, hbLast, hbSent>>
    /\ UNCHANGED <<tunVars, outsideAgent>>

\* Agent.Run, lines 98-103: the loop's head; a new cycle begins with the
\* FetchConfig request of runCycle.
LoopTop ==
    /\ pc = "loop"
    /\ IF ctxCancelled
       THEN /\ pc' = "returned"
            /\ runRet' = "Canceled"
            /\ UNCHANGED <<cyc, curAtCycleStart>>
       ELSE /\ pc' = "fetch"
            /\ runRet' = runRet
            /\ cyc' = FreshCycle
            /\ curAtCycleStart' = current
    /\ lastBase' = 0
    /\ lastStable' = FALSE
    /\ lastErr' = "none"
    /\ bindAddr' = <<>>
    /\ hbFails' = 0
    /\ hbLast' = "none"
    /\ hbSent' = "none"
    /\ UNCHANGED <<ctxCancelled, current, cfg, privateKey, keyFile, sleepFor, sleepKind>>
    /\ UNCHANGED <<sleepWake, mainPC, exitStatus, lockState>>
    /\ UNCHANGED <<tpc, elapsed, hbDue, ka, hb, acc, tunnelErr, outsideAgent>>
    /\ UNCHANGED <<validateCalls, validateResp, failsSinceStable>>
    /\ UNCHANGED <<tunClient, tunListener>>

\* runCycle, lines 132-142: FetchConfig returns.  An error ends the cycle
\* as a transient one (or as a cancellation when the context was cancelled);
\* an inactive config ends it with ErrInactive; an active one goes on.
RunFetch(r, n) ==
    /\ pc = "fetch"
    /\ LET err == IF ctxCancelled THEN "fetchCanceled"
                  ELSE IF FetchConfig(r) = "nil" THEN "nil" ELSE "fetch"
       IN  IF err # "nil"
           THEN /\ cyc' = [cyc EXCEPT !.fetch = "err",
                                      !.fetchErr = IF ctxCancelled THEN "canceled"
                                                   ELSE FetchConfig(r)]
                /\ EndCycle(err, current, FALSE, n)
           ELSE IF ~r.body.Active
           THEN /\ cyc' = [cyc EXCEPT !.fetch = "inactive",
                                      !.delivered = r.body.PrivateKey]
                /\ EndCycle("Inactive", current, FALSE, n)
           ELSE /\ cyc' = [cyc EXCEPT !.fetch = "active",
                                      !.delivered = r.body.PrivateKey]
                /\ cfg' = r.body
                /\ pc' = "probe"
                /\ UNCHANGED <<runRet, current, privateKey, sleepFor, sleepKind,
                               failsSinceStable, lastBase, lastStable, lastErr>>
                /\ UNCHANGED <<sleepWake, mainPC, exitStatus, lockState>>
    /\ UNCHANGED <<ctxCancelled, keyFile>>
    /\ UNCHANGED <<validateCalls, validateResp, curAtCycleStart, hbFails, hbLast, hbSent>>
    /\ UNCHANGED <<tunVars, outsideAgent>>

\* runCycle, line 144: checkDomoticz, which only logs.
RunProbe ==
    /\ pc = "probe"
    /\ pc' = "key"
    /\ cyc' = [cyc EXCEPT !.probed = TRUE]
    /\ UNCHANGED <<ctxCancelled, runRet, current, cfg, privateKey, keyFile,
                   sleepFor, sleepKind, sleepWake, mainPC, exitStatus, lockState>>
    /\ UNCHANGED <<validateCalls, validateResp, curAtCycleStart, failsSinceStable,
                   lastBase, lastStable, lastErr, hbFails, hbLast, hbSent>>
    /\ UNCHANGED <<tunVars, outsideAgent>>

\* writeKey outcomes: written; MkdirAll failed; WriteFile could not open the
\* file; WriteFile failed after truncating it.
WriteKeyOutcomes == {"ok", "mkdirErr", "openErr", "writeErr"}

\* runCycle, lines 149-161: the error of the key step.  A config with a key
\* has it written (writeKey's error ends the cycle); a config without one
\* has the key file read (a missing file ends the cycle).
KeyErrorIgnored(fromCfg, outcome, file) == "nil"

KeyErrorAbsentIsEmpty(fromCfg, outcome, file) ==
    IF fromCfg
    THEN (IF outcome = "ok" THEN "nil" ELSE "writeKey")
    ELSE "nil"

KeyError(fromCfg, outcome, file) ==
    IF fromCfg
    THEN (IF outcome = "ok" THEN "nil" ELSE "writeKey")
    ELSE (IF file = NoFile THEN "noKey" ELSE "nil")

\* The key step as the history records it.
KeyStep(fromCfg, outcome, file) ==
    IF fromCfg
    THEN (IF outcome = "ok" THEN "written" ELSE "writeFailed")
    ELSE (IF file = NoFile THEN "readFailed" ELSE "read")

\* runCycle, lines 146-165: the key is written from the config, or read back
\* from disk when the config has none; then start := time.Now() and
\* tunnel.Run is called.
RunKey(outcome, n) ==
    /\ pc = "key"
    /\ LET fromCfg == cfg.PrivateKey # ""
           err == KeyError(fromCfg, outcome, keyFile)
           step == KeyStep(fromCfg, outcome, keyFile)
       IN  /\ keyFile' = IF fromCfg /\ outcome = "ok" THEN cfg.PrivateKey
                         ELSE IF fromCfg /\ outcome = "writeErr" THEN ""
                         ELSE keyFile
           /\ IF err # "nil"
              THEN /\ cyc' = [cyc EXCEPT !.key = step]
                   /\ EndCycle(err, current, FALSE, n)
                   /\ UNCHANGED <<tpc, elapsed>>
              ELSE /\ cyc' = [cyc EXCEPT !.key = step, !.tunnel = TRUE]
                   /\ privateKey' = IF fromCfg THEN cfg.PrivateKey ELSE keyFile
                   /\ cfg' = [cfg EXCEPT !.PrivateKey = ""]
                   /\ pc' = "tunnel"
                   /\ tpc' = "parse"
                   /\ elapsed' = 0
                   /\ UNCHANGED <<runRet, current, sleepFor, sleepKind,
                                  failsSinceStable, lastBase, lastStable, lastErr>>
                   /\ UNCHANGED <<sleepWake, mainPC, exitStatus, lockState>>
    /\ UNCHANGED <<ctxCancelled, outsideAgent>>
    /\ UNCHANGED <<hbDue, ka, hb, acc, tunnelErr, bindAddr>>
    /\ UNCHANGED <<validateCalls, validateResp, curAtCycleStart, hbFails, hbLast, hbSent>>
    /\ UNCHANGED <<tunClient, tunListener>>

\* sleepCtx, line 220: the full duration has passed and time.After's channel
\* delivers, ending a select that nothing has ended yet.
TimerFires ==
    /\ pc = "sleep"
    /\ sleepWake = "none"
    /\ sleepWake' = "timer"
    /\ UNCHANGED <<pc, ctxCancelled, runRet, current, cfg, privateKey, keyFile,
                   sleepFor, sleepKind, mainPC, exitStatus, lockState>>
    /\ UNCHANGED <<tunVars, histVars, outsideAgent>>

\* sleepCtx returns true: the timer ended the select.
SleepDone ==
    /\ pc = "sleep"
    /\ sleepWake = "timer"
    /\ pc' = "loop"
    /\ sleepFor' = 0
    /\ sleepKind' = "none"
    /\ sleepWake' = "none"
    /\ UNCHANGED <<ctxCancelled, runRet, current, cfg, privateKey, keyFile>>
    /\ UNCHANGED <<mainPC, exitStatus, lockState>>
    /\ UNCHANGED <<tunVars, histVars, outsideAgent>>

\* sleepCtx returns false: ctx.Done() ended the select; Run returns
\* ctx.Err().
SleepCancelled ==
    /\ pc = "sleep"
    /\ sleepWake = "ctx"
    /\ pc' = "returned"
    /\ runRet' = "Canceled"
    /\ sleepFor' = 0
    /\ sleepKind' = "none"
    /\ sleepWake' = "none"
    /\ UNCHANGED <<ctxCancelled, current, cfg, privateKey, keyFile>>
    /\ UNCHANGED <<mainPC, exitStatus, lockState>>
    /\ UNCHANGED <<tunVars, histVars, outsideAgent>>

\* ---- tunnel.Run ----

\* The supervision scope tunnelCtx is done once the parent context is
\* cancelled or Run has returned (its deferred cancel).
TunnelCtxDone == ctxCancelled \/ tpc # "supervise"

LoopbackHost == <<"1", "2", "7", ".", "0", ".", "0", ".", "1">>

\* The configured relay host as text.
HostText(h) ==
    IF h = "r.example" THEN <<"r", ".", "e", "x", "a", "m", "p", "l", "e">>
    ELSE <<>>

\* tunnel.Run, line 98: bindAddr := fmt.Sprintf("127.0.0.1:%d", cfg.TunnelPort)
BindAddrFromHost(c) == HostText(c.Host) \o <<":">> \o FormatInt(c.TunnelPort)

BindAddr(c) == LoopbackHost \o <<":">> \o FormatInt(c.TunnelPort)

\* The deferred client.Close() and listener.Close() (lines 95, 103).
CloseLeaks(state) == state

Close(state) == IF state = "open" THEN "closed" ELSE state

\* tunnel.Run returns err; its deferred calls cancel tunnelCtx and close the
\* listener and the SSH client; runCycle then checks the elapsed time and
\* hands err to Agent.Run.  The goroutines of the run, cancelled, share
\* nothing with what the agent does next and leave the state with the run.
TunnelReturn(err, n) ==
    /\ tpc' = "idle"
    /\ ka' = "idle"
    /\ hb' = "idle"
    /\ acc' = "idle"
    /\ tunnelErr' = <<>>
    /\ hbDue' = FALSE
    /\ tunListener' = Close(tunListener)
    /\ tunClient' = Close(tunClient)
    /\ EndCycle(err, AfterTunnel(current, elapsed), elapsed >= 1, n)
    /\ UNCHANGED <<ctxCancelled, keyFile, elapsed>>
    /\ UNCHANGED <<validateCalls, validateResp, cyc, curAtCycleStart, hbFails, hbLast, hbSent>>
    /\ UNCHANGED outsideAgent

\* Time passes by one tick while tunnel.Run is in progress; the heartbeat
\* ticker of a supervised tunnel fires when its period has passed.
Tick ==
    /\ tpc # "idle"
    /\ elapsed' = Min(elapsed + 1, MaxElapsedTicks)
    /\ hbDue' = IF tpc = "supervise" THEN TRUE ELSE hbDue
    /\ UNCHANGED <<tpc, ka, hb, acc, tunnelErr, bindAddr>>
    /\ UNCHANGED <<orchVars, histVars, outsideAgent>>
    /\ UNCHANGED <<tunClient, tunListener>>

\* tunnel.Run, lines 71-74: ssh.ParsePrivateKey.
TunParseKey(n) ==
    /\ tpc = "parse"
    /\ IF ParsePrivateKeyOk(privateKey)
       THEN /\ tpc' = "hostkey"
            /\ privateKey' = ""
            /\ UNCHANGED <<pc, ctxCancelled, runRet, current, cfg, keyFile,
                           sleepFor, sleepKind, sleepWake, mainPC, exitStatus,
                           lockState>>
            /\ UNCHANGED <<elapsed, hbDue, ka, hb, acc, tunnelErr, tunClient,
                           tunListener>>
            /\ UNCHANGED <<histVars, outsideAgent>>
       ELSE TunnelReturn("parseKey", n)
    /\ UNCHANGED bindAddr

\* tunnel.Run, lines 76-79: buildHostKeyCallback.
TunHostKey(ok, n) ==
    /\ tpc = "hostkey"
    /\ IF ok
       THEN /\ tpc' = "dial"
            /\ UNCHANGED <<elapsed, hbDue, ka, hb, acc, tunnelErr, tunClient,
                           tunListener>>
            /\ UNCHANGED <<orchVars, histVars, outsideAgent>>
       ELSE TunnelReturn("hostKeySetup", n)
    /\ UNCHANGED bindAddr

\* tunnel.Run, lines 88-95: ssh.Dial to the relay.
TunDial(ok, n) ==
    /\ tpc = "dial"
    /\ IF ok
       THEN /\ tpc' = "listen"
            /\ tunClient' = "open"
            /\ UNCHANGED <<elapsed, hbDue, ka, hb, acc, tunnelErr, tunListener>>
            /\ UNCHANGED <<orchVars, histVars, outsideAgent>>
       ELSE TunnelReturn("dial", n)
    /\ UNCHANGED bindAddr

\* time.NewTicker, line 124: whether the new ticker's channel holds a tick
\* before its period has passed.
NewTickerFiresAtOnce == TRUE

NewTicker == FALSE

\* tunnel.Run, lines 97-144: the reverse forward is requested at bindAddr;
\* when the relay grants it the three goroutines are started on a fresh
\* tunnelCtx and a fresh channel.
TunListen(ok, n) ==
    /\ tpc = "listen"
    /\ bindAddr' = BindAddr(cfg)
    /\ IF ok
       THEN /\ tpc' = "supervise"
            /\ cfg' = NoResponseBody
            /\ ka' = "wait"
            /\ hb' = "wait"
            /\ acc' = "accept"
            /\ tunnelErr' = <<>>
            /\ hbDue' = NewTicker
            /\ hbFails' = 0
            /\ hbLast' = "none"
            /\ hbSent' = "none"
            /\ UNCHANGED <<pc, ctxCancelled, runRet, current, privateKey, keyFile,
                           sleepFor, sleepKind, sleepWake, mainPC, exitStatus,
                           lockState>>
            /\ UNCHANGED <<validateCalls, validateResp, cyc, curAtCycleStart,
                           failsSinceStable, lastBase, lastStable, lastErr>>
            /\ tunListener' = "open"
            /\ UNCHANGED <<elapsed, tunClient, outsideAgent>>
       ELSE TunnelReturn("listen", n)

\* tunnel.Run, lines 163-165: the final select takes ctx.Done().
RunSelectCtx(n) ==
    /\ tpc = "supervise"
    /\ ctxCancelled
    /\ TunnelReturn("Canceled", n)
    /\ UNCHANGED bindAddr

\* tunnel.Run, lines 166-167: the final select receives from tunnelErr.
RunSelectErr(n) ==
    /\ tpc = "supervise"
    /\ tunnelErr # <<>>
    /\ TunnelReturn(Head(tunnelErr), n)
    /\ UNCHANGED bindAddr

\* runKeepalive, lines 195-203: the select takes a tick of the keepalive
\* ticker and the keepalive request is sent.
KaTick ==
    /\ ka = "wait"
    /\ ka' = "request"
    /\ UNCHANGED <<tpc, elapsed, hbDue, hb, acc, tunnelErr, bindAddr>>
    /\ UNCHANGED <<orchVars, histVars, outsideAgent>>
    /\ UNCHANGED <<tunClient, tunListener>>

\* runKeepalive, lines 196 and 211: a select takes ctx.Done(); it returns nil
\* and nothing is sent.
KaCtxDone ==
    /\ ka \in {"wait", "request"}
    /\ TunnelCtxDone
    /\ ka' = "done"
    /\ UNCHANGED <<tpc, elapsed, hbDue, hb, acc, tunnelErr, bindAddr>>
    /\ UNCHANGED <<orchVars, histVars, outsideAgent>>
    /\ UNCHANGED <<tunClient, tunListener>>

\* runKeepalive, lines 204-210, and tunnel.Run, lines 116-119: the reply
\* arrives, or the request fails or times out; a failure is sent on
\* tunnelErr and ends the goroutine.
KaReply(ok) ==
    /\ ka = "request"
    /\ IF ok
       THEN ka' = "wait" /\ tunnelErr' = tunnelErr
       ELSE /\ Len(tunnelErr) < ChanCap
            /\ tunnelErr' = Append(tunnelErr, "keepalive")
            /\ ka' = "done"
    /\ UNCHANGED <<tpc, elapsed, hbDue, hb, acc, bindAddr>>
    /\ UNCHANGED <<orchVars, histVars, outsideAgent>>
    /\ UNCHANGED <<tunClient, tunListener>>

\* Heartbeat goroutine, lines 127-131: the select takes a tick and calls
\* HeartbeatFunc.  On a tunnelCtx that is already done the request fails at
\* once, which the loop logs before it continues.
HbTick ==
    /\ hb = "wait"
    /\ hbDue
    /\ hbDue' = FALSE
    /\ IF TunnelCtxDone
       THEN /\ hb' = "wait"
            /\ hbFails' = Min(hbFails + 1, MaxHbFails)
            /\ hbLast' = "transport"
       ELSE /\ hb' = "call"
            /\ hbFails' = hbFails
            /\ hbLast' = hbLast
    /\ UNCHANGED <<tpc, elapsed, ka, acc, tunnelErr, bindAddr>>
    /\ UNCHANGED <<orchVars, outsideAgent>>
    /\ UNCHANGED <<validateCalls, validateResp, cyc, curAtCycleStart,
                   failsSinceStable, lastBase, lastStable, lastErr, hbSent>>
    /\ UNCHANGED <<tunClient, tunListener>>

\* Heartbeat goroutine, lines 128-129: the select takes tunnelCtx.Done().
HbCtxDone ==
    /\ hb = "wait"
    /\ TunnelCtxDone
    /\ hb' = "done"
    /\ UNCHANGED <<tpc, elapsed, hbDue, ka, acc, tunnelErr, bindAddr>>
    /\ UNCHANGED <<orchVars, histVars, outsideAgent>>
    /\ UNCHANGED <<tunClient, tunListener>>

\* Heartbeat goroutine, lines 131-141: HeartbeatFunc returns.
HbReturn(r) ==
    /\ hb = "call"
    /\ LET res == HeartbeatFunc(r)
       IN  /\ hbFails' = IF HeartbeatKind(r) \in {"transport", "status"}
                         THEN Min(hbFails + 1, MaxHbFails)
                         ELSE hbFails
           /\ hbLast' = HeartbeatKind(r)
           /\ IF HeartbeatVerdict(res) = "teardown"
              THEN /\ Len(tunnelErr) < ChanCap
                   /\ tunnelErr' = Append(tunnelErr, "Inactive")
                   /\ hb' = "done"
                   /\ hbSent' = HeartbeatKind(r)
              ELSE /\ tunnelErr' = tunnelErr
                   /\ hb' = "wait"
                   /\ hbSent' = hbSent
    /\ UNCHANGED <<tpc, elapsed, hbDue, ka, acc, bindAddr>>
    /\ UNCHANGED <<orchVars, outsideAgent>>
    /\ UNCHANGED <<validateCalls, validateResp, cyc, curAtCycleStart,
                   failsSinceStable, lastBase, lastStable, lastErr>>
    /\ UNCHANGED <<tunClient, tunListener>>

\* Accept goroutine, lines 149-158: listener.Accept fails (the connection
\* broke, or the listener was closed); the error is sent unless tunnelCtx is
\* done, and the goroutine ends.
AccError ==
    /\ acc = "accept"
    /\ IF TunnelCtxDone
       THEN tunnelErr' = tunnelErr
       ELSE /\ Len(tunnelErr) < ChanCap
            /\ tunnelErr' = Append(tunnelErr, "accept")
    /\ acc' = "done"
    /\ UNCHANGED <<tpc, elapsed, hbDue, ka, hb, bindAddr>>
    /\ UNCHANGED <<orchVars, histVars, outsideAgent>>
    /\ UNCHANGED <<tunClient, tunListener>>

AgentNext ==
    \/ \E url \in ApiURLs, token \in Tokens, lockOk \in BOOLEAN :
          MainStart(url, token, lockOk)
    \/ MainExit
    \/ Cancel
    \/ \E r \in ValidateResponses : RunValidate(r)
    \/ LoopTop
    \/ \E r \in FetchResponses, n \in RandSamples : RunFetch(r, n)
    \/ RunProbe
    \/ \E outcome \in WriteKeyOutcomes, n \in RandSamples : RunKey(outcome, n)
    \/ TimerFires
    \/ SleepDone
    \/ SleepCancelled
    \/ Tick
    \/ \E n \in RandSamples : TunParseKey(n)
    \/ \E ok \in BOOLEAN, n \in RandSamples : TunHostKey(ok, n)
    \/ \E ok \in BOOLEAN, n \in RandSamples : TunDial(ok, n)
    \/ \E ok \in BOOLEAN, n \in RandSamples : TunListen(ok, n)
    \/ \E n \in RandSamples : RunSelectCtx(n)
    \/ \E n \in RandSamples : RunSelectErr(n)
    \/ KaTick
    \/ KaCtxDone
    \/ \E ok \in BOOLEAN : KaReply(ok)
    \/ HbTick
    \/ HbCtxDone
    \/ \E r \in HeartbeatResponses : HbReturn(r)
    \/ AccError

\* The steps of main's goroutine: main, Agent.Run, runCycle and tunnel.Run
\* up to its select.  Each is a computation or a call that returns (the HTTP
\* client and the dials have timeouts), so a step that stays possible is
\* eventually taken.
RunProgress ==
    \/ \E url \in ApiURLs, token \in Tokens, lockOk \in BOOLEAN :
          MainStart(url, token, lockOk)
    \/ MainExit
    \/ \E r \in ValidateResponses : RunValidate(r)
    \/ LoopTop
    \/ \E r \in FetchResponses, n \in RandSamples : RunFetch(r, n)
    \/ RunProbe
    \/ \E outcome \in WriteKeyOutcomes, n \in RandSamples : RunKey(outcome, n)
    \/ SleepDone
    \/ SleepCancelled
    \/ \E n \in RandSamples : TunParseKey(n)
    \/ \E ok \in BOOLEAN, n \in RandSamples : TunHostKey(ok, n)
    \/ \E ok \in BOOLEAN, n \in RandSamples : TunDial(ok, n)
    \/ \E ok \in BOOLEAN, n \in RandSamples : TunListen(ok, n)
    \/ \E n \in RandSamples : RunSelectCtx(n)
    \/ \E n \in RandSamples : RunSelectErr(n)

\* ------------------------------------------------------------------------
\* Part 3: one default Backoff (backoff.New) used by several threads.
\* ------------------------------------------------------------------------

\* Number of threads that call Next and Reset on the same Backoff.
NumThreads == 2

Threads == 1..NumThreads

NoThread == 0

\* sync.Mutex: Lock returns only while no thread holds the mutex.
MuAlwaysAvailable(holder) == TRUE

MuAvailable(holder) == holder = NoThread

\* backoff.New: current starts at DefaultInitial.
BackoffInit ==
    /\ boCurrent = DefaultInitial
    /\ boMu = NoThread
    /\ boPC = [t \in Threads |-> "idle"]
    /\ boBase = [t \in Threads |-> 0]
    /\ boD = [t \in Threads |-> 0]
    /\ boCallBase = [t \in Threads |-> 0]
    /\ boAfterReset = FALSE
    /\ boPrev = 0

\* Backoff.Next, line 47: b.mu.Lock().
NextLock(t) ==
    /\ boPC[t] = "idle"
    /\ MuAvailable(boMu)
    /\ boMu' = t
    /\ boPC' = [boPC EXCEPT ![t] = "nextLocked"]
    /\ boCallBase' = [boCallBase EXCEPT ![t] = boCurrent]
    /\ UNCHANGED <<boCurrent, boBase, boD, boAfterReset, boPrev>>
    /\ UNCHANGED outsideBackoff

\* Backoff.Next, lines 50-58: base := b.current; the jittered d.
NextJitter(t, n) ==
    /\ boPC[t] = "nextLocked"
    /\ boBase' = [boBase EXCEPT ![t] = boCurrent]
    /\ boD' = [boD EXCEPT ![t] = NextDelay(boCurrent, n)]
    /\ boPC' = [boPC EXCEPT ![t] = "nextJittered"]
    /\ UNCHANGED <<boCurrent, boMu, boCallBase, boAfterReset, boPrev>>
    /\ UNCHANGED outsideBackoff

\* Backoff.Next, lines 61-65: b.current is advanced and capped.
NextAdvance(t) ==
    /\ boPC[t] = "nextJittered"
    /\ boCurrent' = NextCurrent(boCurrent)
    /\ boPC' = [boPC EXCEPT ![t] = "nextAdvanced"]
    /\ boAfterReset' = FALSE
    /\ UNCHANGED <<boMu, boBase, boD, boCallBase, boPrev>>
    /\ UNCHANGED outsideBackoff

\* Backoff.Next, lines 48 and 67: return d; the deferred b.mu.Unlock().
NextReturn(t) ==
    /\ boPC[t] = "nextAdvanced"
    /\ boMu' = NoThread
    /\ boPC' = [boPC EXCEPT ![t] = "idle"]
    /\ boBase' = [boBase EXCEPT ![t] = 0]
    /\ boD' = [boD EXCEPT ![t] = 0]
    /\ boCallBase' = [boCallBase EXCEPT ![t] = 0]
    /\ UNCHANGED <<boCurrent, boAfterReset, boPrev>>
    /\ UNCHANGED outsideBackoff

\* Backoff.Reset, line 73: b.mu.Lock().
ResetLock(t) ==
    /\ boPC[t] = "idle"
    /\ MuAvailable(boMu)
    /\ boMu' = t
    /\ boPC' = [boPC EXCEPT ![t] = "resetLocked"]
    /\ boCallBase' = [boCallBase EXCEPT ![t] = boCurrent]
    /\ UNCHANGED <<boCurrent, boBase, boD, boAfterReset, boPrev>>
    /\ UNCHANGED outsideBackoff

\* Backoff.Reset, line 75: b.current = b.initial.
ResetSet(t) ==
    /\ boPC[t] = "resetLocked"
    /\ boCurrent' = ResetCurrent
    /\ boPC' = [boPC EXCEPT ![t] = "resetDone"]
    /\ boAfterReset' = TRUE
    /\ boPrev' = boCurrent
    /\ UNCHANGED <<boMu, boBase, boD, boCallBase>>
    /\ UNCHANGED outsideBackoff

\* Backoff.Reset, lines 74 and 76: the deferred b.mu.Unlock().
ResetReturn(t) ==
    /\ boPC[t] = "resetDone"
    /\ boMu' = NoThread
    /\ boPC' = [boPC EXCEPT ![t] = "idle"]
    /\ boCallBase' = [boCallBase EXCEPT ![t] = 0]
    /\ UNCHANGED <<boCurrent, boBase, boD, boAfterReset, boPrev>>
    /\ UNCHANGED outsideBackoff

BackoffNext ==
    \E t \in Threads :
        \/ NextLock(t)
        \/ \E n \in RandSamples : NextJitter(t, n)
        \/ NextAdvance(t)
        \/ NextReturn(t)
        \/ ResetLock(t)
        \/ ResetSet(t)
        \/ ResetReturn(t)

\* ------------------------------------------------------------------------
\* Part 4: the known-hosts store and the host-key callback
\* (buildHostKeyCallback).  The store holds one line per host pattern: the
\* callback appends a line only for a host without one, and the operator's
\* edits modelled here keep it so.
\* ------------------------------------------------------------------------

NoStore == "<absent>"

\* Public keys a relay can present.
HostKeys == {"keyA", "keyB"}

\* tunnel.Run, line 88: relayAddr := fmt.Sprintf("%s:%d", cfg.Host, cfg.Port),
\* the hostname the callback is called with.
RelayAddr(h, p) == HostText(h) \o <<":">> \o FormatInt(p)

\* The relay addresses dialled: one host on the default SSH port and on
\* another port.
Hostnames == {RelayAddr("r.example", 22), RelayAddr("r.example", 2222)}

\* Index of the last ":" of a text (0: none).
LastColon(text) ==
    CHOOSE i \in 0..Len(text) :
        /\ (i > 0) => text[i] = ":"
        /\ \A j \in (i + 1)..Len(text) : text[j] # ":"

\* net.SplitHostPort on "host:port".
SplitHostPort(text) ==
    LET i == LastColon(text)
    IN  [host |-> SubSeq(text, 1, i - 1), port |-> SubSeq(text, i + 1, Len(text))]

\* knownhosts.Normalize: the host alone on port 22, "[host]:port" otherwise.
NormalizeKeepsPort(hostname) ==
    LET a == SplitHostPort(hostname)
    IN  <<"[">> \o a.host \o <<"]", ":">> \o a.port

Normalize(hostname) ==
    LET a == SplitHostPort(hostname)
    IN  IF a.port = <<"2", "2">> THEN a.host
        ELSE <<"[">> \o a.host \o <<"]", ":">> \o a.port

\* The address a known_hosts pattern stands for: "[host]:port", or a bare
\* host on port 22.
PatternAddr(pattern) ==
    IF pattern # <<>> /\ pattern[1] = "["
    THEN LET i == LastColon(pattern)
         IN  [host |-> SubSeq(pattern, 2, i - 2),
              port |-> SubSeq(pattern, i + 1, Len(pattern))]
    ELSE [host |-> pattern, port |-> <<"2", "2">>]

\* knownhosts.Line(hosts, key): one line of the store.
Line(pattern, key) == [pattern |-> pattern, key |-> key]

\* Lines the store can hold.
StoreLines == {Line(Normalize(h), k) : h \in Hostnames, k \in HostKeys}

\* The callback of knownhosts.New applied to hostname: the keys of the lines
\* that match it (KeyError.Want when the presented key is not among them).
Want(lines, hostname) ==
    {lines[i].key : i \in {j \in 1..Len(lines) :
                              PatternAddr(lines[j].pattern) = SplitHostPort(hostname)}}

\* The table the callback consults: the file as it is at the handshake.
TableAtBuild(file, atBuild) == atBuild

Table(file, atBuild) == file

\* Callback, lines 249-257: a KeyError with a non-empty Want is a mismatch.
IsMismatchNever(want) == FALSE

IsMismatch(want) == want # {}

\* Callback, lines 263-270: the file is opened with O_APPEND and the line
\* printed at its end.
PersistTruncates(lines, line) == <<line>>

Persist(lines, line) == Append(lines, line)

HostKeyInit ==
    /\ khFile = NoStore
    /\ khBuilt = FALSE
    /\ khAtBuild = NoStore
    /\ khLast = [hostname |-> <<>>, key |-> "none", load |-> TRUE,
                 save |-> "none", verdict |-> "none"]
    /\ khSeq = 0
    /\ khBuilds = 0

\* buildHostKeyCallback, lines 226-235: the directory and the file are
\* created when missing; the callback is returned.
BuildCallback(ok) ==
    /\ IF ok
       THEN /\ khFile' = IF khFile = NoStore THEN <<>> ELSE khFile
            /\ khBuilt' = TRUE
            /\ khAtBuild' = khFile'
       ELSE /\ khFile = NoStore
            /\ khBuilt' = FALSE
            /\ khAtBuild' = NoStore
            /\ khFile' = khFile
    /\ khBuilds' = 1 - khBuilds
    /\ UNCHANGED <<khLast, khSeq>>
    /\ UNCHANGED outsideHostKey

\* What appending the TOFU line can do: it is written, the file cannot be
\* opened, or the write fails.
SaveOutcomes == {"ok", "openErr", "writeErr"}

\* The callback, lines 264-270: what it returns for a host not yet seen, by
\* the outcome of os.OpenFile and fmt.Fprintln.
SaveVerdictTrustsAnyway(save) == "tofu"

SaveVerdict(save) == IF save = "ok" THEN "tofu" ELSE "saveErr"

\* The callback, lines 237-271, called during a handshake with the relay at
\* hostname presenting key.  load: knownhosts.New could read the file.
Handshake(hostname, key, load, save) ==
    /\ khBuilt
    /\ khSeq' = 1 - khSeq
    /\ LET loaded == load /\ khFile # NoStore
           want == IF loaded THEN Want(Table(khFile, khAtBuild), hostname) ELSE {}
           verdict == IF ~loaded THEN "loadErr"
                      ELSE IF key \in want THEN "accepted"
                      ELSE IF IsMismatch(want) THEN "mismatch"
                      ELSE SaveVerdict(save)
       IN  /\ khLast' = [hostname |-> hostname, key |-> key, load |-> loaded,
                         save |-> save, verdict |-> verdict]
           /\ khFile' = IF verdict \in {"tofu", "saveErr"} /\ save = "ok"
                        THEN Persist(khFile, Line(Normalize(hostname), key))
                        ELSE khFile
    /\ UNCHANGED <<khBuilt, khAtBuild, khBuilds>>
    /\ UNCHANGED outsideHostKey

\* The operator removes a line from the store.
OperatorRemoves(i) ==
    /\ khFile # NoStore
    /\ i \in 1..Len(khFile)
    /\ khFile' = SubSeq(khFile, 1, i - 1) \o SubSeq(khFile, i + 1, Len(khFile))
    /\ UNCHANGED <<khBuilt, khAtBuild, khLast, khSeq, khBuilds>>
    /\ UNCHANGED outsideHostKey

\* The operator adds a line for a host the store has none for.
OperatorAdds(line) ==
    /\ khFile # NoStore
    /\ \A i \in 1..Len(khFile) : khFile[i].pattern # line.pattern
    /\ khFile' = Append(khFile, line)
    /\ UNCHANGED <<khBuilt, khAtBuild, khLast, khSeq, khBuilds>>
    /\ UNCHANGED outsideHostKey

\* The operator removes the whole file, as the mismatch message suggests.
OperatorDeletesFile ==
    /\ khFile # NoStore
    /\ khFile' = NoStore
    /\ UNCHANGED <<khBuilt, khAtBuild, khLast, khSeq, khBuilds>>
    /\ UNCHANGED outsideHostKey

HostKeyNext ==
    \/ \E ok \in BOOLEAN : BuildCallback(ok)
    \/ \E hostname \in Hostnames, key \in HostKeys, load \in BOOLEAN,
          save \in SaveOutcomes : Handshake(hostname, key, load, save)
    \/ \E i \in 1..Cardinality(StoreLines) : OperatorRemoves(i)
    \/ \E line \in StoreLines : OperatorAdds(line)
    \/ OperatorDeletesFile

\* ------------------------------------------------------------------------
\* Part 5: agent.New and the API client (internal/api): which URLs requests
\* go to, and how each call classifies its response.
\* ------------------------------------------------------------------------

\* Bodies of a 200 response to GET /api/agent/config, with heartbeat_url.
ApiConfigBodies ==
    [Host : {"", "r.example"}, Port : {0, 2222}, TunnelPort : {0, 9000},
     PrivateKey : {""}, Active : BOOLEAN, HeartbeatURL : HeartbeatURLs]

ApiFetchResponses ==
    {[transport |-> TRUE, status |-> 0, decodes |-> FALSE, body |-> NoResponseBody]}
        \cup {[transport |-> FALSE, status |-> s, decodes |-> FALSE,
               body |-> NoResponseBody] : s \in {200, 401, 403, 500}}
        \cup {[transport |-> FALSE, status |-> 200, decodes |-> TRUE, body |-> b] :
                 b \in ApiConfigBodies}

NoConfig == [fetched |-> FALSE]

NoCall == [call |-> "none"]

ApiInit ==
    /\ anPC = "start"
    /\ anErr = "none"
    /\ anURL = <<>>
    /\ anLockCalled = FALSE
    /\ baseURL = <<>>
    /\ apiCfg = NoConfig
    /\ apiSent = {}
    /\ apiLast = NoCall

\* agent.New, lines 56-77: api.New, then acquireLock.
AgentNew(url, lockOk) ==
    /\ anPC = "start"
    /\ anURL' = url
    /\ IF ~NewAccepts(url)
       THEN /\ anPC' = "failed"
            /\ anErr' = "apiClient"
            /\ UNCHANGED <<anLockCalled, baseURL>>
       ELSE /\ baseURL' = TrimRightSlash(url)
            /\ anLockCalled' = TRUE
            /\ IF lockOk
               THEN anPC' = "ready" /\ anErr' = "nil"
               ELSE anPC' = "failed" /\ anErr' = "lock"
    /\ UNCHANGED <<apiCfg, apiSent, apiLast>>
    /\ UNCHANGED outsideApi

\* Client.ValidateToken, lines 74-98: POST baseURL + "/api/agent/validate".
ApiValidateToken(r) ==
    /\ anPC = "ready"
    /\ LET url == baseURL \o <<"/", "a", "p", "i", "/", "a", "g", "e", "n",
            "t", "/", "v", "a", "l", "i", "d", "a", "t", "e">>
       IN  /\ Sendable(url) \/ r.transport
           /\ apiSent' = IF Sendable(url) THEN apiSent \cup {url} ELSE apiSent
           /\ apiLast' = [call |-> "validate", r |-> r, err |-> ValidateToken(r)]
    /\ UNCHANGED <<anPC, anErr, anURL, anLockCalled, baseURL, apiCfg>>
    /\ UNCHANGED outsideApi

\* Client.FetchConfig, lines 102-139: GET baseURL + "/api/agent/config".
ApiFetchConfig(r) ==
    /\ anPC = "ready"
    /\ LET url == baseURL \o <<"/", "a", "p", "i", "/", "a", "g", "e", "n",
            "t", "/", "c", "o", "n", "f", "i", "g">>
           err == FetchConfig(r)
       IN  /\ Sendable(url) \/ r.transport
           /\ apiSent' = IF Sendable(url) THEN apiSent \cup {url} ELSE apiSent
           /\ apiLast' = [call |-> "fetch", r |-> r, err |-> err]
           /\ apiCfg' = IF err = "nil"
                        THEN [fetched |-> TRUE, Host |-> r.body.Host,
                              Port |-> r.body.Port,
                              TunnelPort |-> r.body.TunnelPort,
                              Active |-> r.body.Active,
                              HeartbeatURL |-> r.body.HeartbeatURL]
                        ELSE apiCfg
    /\ UNCHANGED <<anPC, anErr, anURL, anLockCalled, baseURL>>
    /\ UNCHANGED outsideApi

\* Client.SendHeartbeat, lines 145-186, called by the HeartbeatFunc closure
\* with cfg.HeartbeatURL of the active config the tunnel was started from.
ApiSendHeartbeat(r) ==
    /\ anPC = "ready"
    /\ apiCfg.fetched
    /\ apiCfg.Active
    /\ LET url == apiCfg.HeartbeatURL
       IN  /\ Sendable(url) \/ r.transport
           /\ apiSent' = IF Sendable(url) THEN apiSent \cup {url} ELSE apiSent
           /\ apiLast' = [call |-> "heartbeat", r |-> r, res |-> SendHeartbeat(r)]
    /\ UNCHANGED <<anPC, anErr, anURL, anLockCalled, baseURL, apiCfg>>
    /\ UNCHANGED outsideApi

ApiNext ==
    \/ \E url \in ApiURLs, lockOk \in BOOLEAN : AgentNew(url, lockOk)
    \/ \E r \in ValidateResponses : ApiValidateToken(r)
    \/ \E r \in ApiFetchResponses : ApiFetchConfig(r)
    \/ \E r \in HeartbeatResponses : ApiSendHeartbeat(r)

\* ------------------------------------------------------------------------
\* Part 6: writeKey (internal/agent) at the level of its system calls, with a
\* process that can be killed between them and a reader of the key file.
\* ------------------------------------------------------------------------

\* The permission bits writeKey passes to os.WriteFile: 0600.
KeyFileMode == 384

\* Permission bits a key file can have: 0600 and 0644.
FileModes == {KeyFileMode, 420}

\* PEM keys as the chunks WriteFile's write calls can be split into.
PemKeys == {<<"a1", "a2">>, <<"b1", "b2">>}

NeverRead == [result |-> "none", data |-> <<>>]

KeyInit ==
    /\ kfData = <<>>
    /\ kfMode = 0
    /\ wkPC = "idle"
    /\ wkKey = <<>>
    /\ wkPos = 0
    /\ wkRet = "none"
    /\ kfPrev = [mode |-> 0, data |-> <<>>]
    /\ kfRead = NeverRead

\* writeKey(key) is called.
WriteKeyCall(key) ==
    /\ wkPC = "idle"
    /\ wkPC' = "mkdir"
    /\ wkKey' = key
    /\ wkPos' = 0
    /\ wkRet' = "none"
    /\ kfPrev' = [mode |-> kfMode, data |-> kfData]
    /\ UNCHANGED <<kfData, kfMode, kfRead>>
    /\ UNCHANGED outsideKey

\* writeKey, lines 205-207: os.MkdirAll(configDir, 0755).
WriteKeyMkdirAll(ok) ==
    /\ wkPC = "mkdir"
    /\ IF ok
       THEN wkPC' = "open" /\ wkRet' = wkRet
       ELSE wkPC' = "idle" /\ wkRet' = "mkdirErr"
    /\ UNCHANGED <<kfData, kfMode, wkKey, wkPos, kfPrev, kfRead>>
    /\ UNCHANGED outsideKey

\* os.WriteFile, first call: OpenFile(name, O_WRONLY|O_CREATE|O_TRUNC, perm).
\* A missing file is created with perm; an existing one is truncated and
\* keeps its permission bits.
WriteKeyOpen(ok) ==
    /\ wkPC = "open"
    /\ IF ok
       THEN /\ wkPC' = "write"
            /\ wkRet' = wkRet
            /\ kfData' = <<>>
            /\ kfMode' = IF kfMode = 0 THEN KeyFileMode ELSE kfMode
       ELSE /\ wkPC' = "idle"
            /\ wkRet' = "openErr"
            /\ UNCHANGED <<kfData, kfMode>>
    /\ UNCHANGED <<wkKey, wkPos, kfPrev, kfRead>>
    /\ UNCHANGED outsideKey

\* os.WriteFile, the write: the next chunk of the key reaches the file, or
\* the write fails; after the last chunk the file is closed and writeKey
\* returns nil.
WriteKeyWrite(ok) ==
    /\ wkPC = "write"
    /\ IF ok
       THEN /\ kfData' = Append(kfData, wkKey[wkPos + 1])
            /\ wkPos' = wkPos + 1
            /\ IF wkPos + 1 = Len(wkKey)
               THEN wkPC' = "idle" /\ wkRet' = "nil"
               ELSE wkPC' = "write" /\ wkRet' = wkRet
       ELSE /\ wkPC' = "idle"
            /\ wkRet' = "writeErr"
            /\ UNCHANGED <<kfData, wkPos>>
    /\ UNCHANGED <<kfMode, wkKey, kfPrev, kfRead>>
    /\ UNCHANGED outsideKey

\* The process is killed inside writeKey; the agent is started again later.
Crash ==
    /\ wkPC # "idle"
    /\ wkPC' = "idle"
    /\ wkRet' = "crashed"
    /\ UNCHANGED <<kfData, kfMode, wkKey, wkPos, kfPrev, kfRead>>
    /\ UNCHANGED outsideKey

\* runCycle, line 154: os.ReadFile(keyFilePath), by this agent in a later
\* cycle or by another process at any time.
ReadKeyFile ==
    /\ kfRead' = IF kfMode = 0 THEN [result |-> "absent", data |-> <<>>]
                 ELSE [result |-> "ok", data |-> kfData]
    /\ UNCHANGED <<kfData, kfMode, wkPC, wkKey, wkPos, wkRet, kfPrev>>
    /\ UNCHANGED outsideKey

\* An operator changes the permission bits of the key file, or removes it.
OperatorChmod(mode) ==
    /\ wkPC = "idle"
    /\ kfMode # 0
    /\ kfMode' = mode
    /\ UNCHANGED <<kfData, wkPC, wkKey, wkPos, wkRet, kfPrev, kfRead>>
    /\ UNCHANGED outsideKey

OperatorRemovesKey ==
    /\ wkPC = "idle"
    /\ kfMode # 0
    /\ kfData' = <<>>
    /\ kfMode' = 0
    /\ UNCHANGED <<wkPC, wkKey, wkPos, wkRet, kfPrev, kfRead>>
    /\ UNCHANGED outsideKey

KeyNext ==
    \/ \E key \in PemKeys : WriteKeyCall(key)
    \/ \E ok \in BOOLEAN : WriteKeyMkdirAll(ok)
    \/ \E ok \in BOOLEAN : WriteKeyOpen(ok)
    \/ \E ok \in BOOLEAN : WriteKeyWrite(ok)
    \/ Crash
    \/ ReadKeyFile
    \/ \E mode \in FileModes : OperatorChmod(mode)
    \/ OperatorRemovesKey

\* ------------------------------------------------------------------------
\* Part 7: one invocation of tunnel.Run (internal/tunnel) with the goroutines
\* it starts, followed past its return.
\* ------------------------------------------------------------------------

\* Connections proxied at the same time during one run.
MaxConns == 1

Conns == 1..MaxConns

\* tunnel.Run, lines 71-103: the steps of the setup, in the order of the
\* code: ssh.ParsePrivateKey, buildHostKeyCallback, ssh.Dial, client.Listen.
SetupOrderHostKeyFirst == <<"hostkey", "parse", "dial", "listen">>

SetupOrder == <<"parse", "hostkey", "dial", "listen">>

\* The step that follows a successful one; supervision ("select") follows
\* the last.
AfterStep(step) ==
    LET i == CHOOSE j \in 1..Len(SetupOrder) : SetupOrder[j] = step
    IN  IF i < Len(SetupOrder) THEN SetupOrder[i + 1] ELSE "select"

RunInit ==
    /\ rPC = SetupOrder[1]
    /\ parentDone = FALSE
    /\ scope = "none"
    /\ rWake = "none"
    /\ rRet = "none"
    /\ sshClient = "none"
    /\ listener = "none"
    /\ errCh = <<>>
    /\ gKeepalive = "none"
    /\ gHeartbeat = "none"
    /\ gAccept = "none"
    /\ proxy = [i \in Conns |-> "none"]
    /\ events = <<>>
    /\ setupLog = <<>>
    /\ relay = "up"
    /\ defers = <<>>

\* tunnelCtx.Done() is closed: tunnelCtx was derived from ctx (line 108) and
\* is cancelled with it, or by the deferred cancel (line 109).
ScopeDone == parentDone \/ scope = "cancelled"

\* The keepalive goroutine sends what runKeepalive returned only when it is
\* an error (lines 116-119).
KeepaliveSendsAlways(err) == TRUE

KeepaliveSends(err) == err # "nil"

\* case err := <-tunnelErr, taken by a select that finds the channel
\* non-empty.
Receive(ch) == Head(ch)

\* tunnelErr <- err.  A Run waiting in its select with no case taken yet is
\* handed the value and resumes with it; otherwise the value is buffered.
SendErr(err) ==
    /\ IF rPC = "parked" /\ rWake = "none"
       THEN rWake' = err /\ errCh' = errCh
       ELSE /\ Len(errCh) < ChanCap
            /\ errCh' = Append(errCh, err)
            /\ rWake' = rWake
    /\ events' = Append(events, err)

\* The defer statements that follow a successful step, in the order of the
\* code: client.Close (line 95); listener.Close, then cancel (lines 103,
\* 109).
DeferredByCancelFirst(step) ==
    CASE step = "dial" -> <<"client">>
      [] step = "listen" -> <<"cancel", "listener">>
      [] OTHER -> <<>>

DeferredBy(step) ==
    CASE step = "dial" -> <<"client">>
      [] step = "listen" -> <<"listener", "cancel">>
      [] OTHER -> <<>>

\* Run executes a return statement with err; its deferred calls follow.
RunReturns(err) ==
    /\ rPC' = "returned"
    /\ rRet' = err
    /\ UNCHANGED <<scope, listener, sshClient>>

\* tunnel.Run, lines 71-161: the next step of the setup succeeds, or fails
\* and Run returns its error.  ssh.Dial opens the client, client.Listen the
\* listener; after the last step tunnelCtx and tunnelErr are made and the
\* three goroutines started.
RunSetupStep(ok) ==
    /\ rPC \in {"parse", "hostkey", "dial", "listen"}
    /\ setupLog' = Append(setupLog, rPC)
    /\ IF ~ok
       THEN /\ RunReturns(rPC)
            /\ UNCHANGED <<gKeepalive, gHeartbeat, gAccept, defers>>
       ELSE /\ rPC' = AfterStep(rPC)
            /\ defers' = defers \o DeferredBy(rPC)
            /\ sshClient' = IF rPC = "dial" THEN "open" ELSE sshClient
            /\ listener' = IF rPC = "listen" THEN "open" ELSE listener
            /\ scope' = IF rPC' = "select" THEN "live" ELSE scope
            /\ gKeepalive' = IF rPC' = "select" THEN "wait" ELSE gKeepalive
            /\ gHeartbeat' = IF rPC' = "select" THEN "wait" ELSE gHeartbeat
            /\ gAccept' = IF rPC' = "select" THEN "accept" ELSE gAccept
            /\ rRet' = rRet
    /\ UNCHANGED <<parentDone, rWake, errCh, proxy, events, relay>>
    /\ UNCHANGED outsideRun

\* tunnel.Run, lines 163-168: Run reaches its select.  It takes a case that
\* is ready, any one when both are; with none ready it waits.
RunSelect(takeCtx) ==
    /\ rPC = "select"
    /\ IF parentDone /\ (takeCtx \/ errCh = <<>>)
       THEN RunReturns("Canceled") /\ errCh' = errCh
       ELSE IF errCh # <<>>
       THEN RunReturns(Receive(errCh)) /\ errCh' = Tail(errCh)
       ELSE /\ rPC' = "parked"
            /\ UNCHANGED <<rRet, scope, listener, sshClient, errCh>>
    /\ UNCHANGED <<parentDone, rWake, gKeepalive, gHeartbeat, gAccept, proxy,
                   events>>
    /\ UNCHANGED <<setupLog, relay, defers, outsideRun>>

\* The waiting select has been ended by a case, and Run returns its outcome.
RunResume ==
    /\ rPC = "parked"
    /\ rWake # "none"
    /\ RunReturns(rWake)
    /\ UNCHANGED <<parentDone, rWake, errCh, gKeepalive, gHeartbeat, gAccept,
                   proxy, events>>
    /\ UNCHANGED <<setupLog, relay, defers, outsideRun>>

\* The deferred calls of a returning Run are run, the last deferred first:
\* cancel cancels tunnelCtx, the others close the listener and the client.
RunDeferred ==
    /\ rPC = "returned"
    /\ defers # <<>>
    /\ LET call == defers[Len(defers)]
       IN  /\ scope' = IF call = "cancel" THEN "cancelled" ELSE scope
           /\ listener' = IF call = "listener" THEN Close(listener) ELSE listener
           /\ sshClient' = IF call = "client" THEN Close(sshClient) ELSE sshClient
    /\ defers' = SubSeq(defers, 1, Len(defers) - 1)
    /\ UNCHANGED <<rPC, parentDone, rWake, rRet, errCh, gKeepalive, gHeartbeat,
                   gAccept, proxy, events, setupLog, relay>>
    /\ UNCHANGED outsideRun

\* The context Run was called with is cancelled; a Run waiting in its select
\* with no case taken yet resumes with ctx.Done().
ParentCancel ==
    /\ rPC # "returned"
    /\ ~parentDone
    /\ parentDone' = TRUE
    /\ rWake' = IF rPC = "parked" /\ rWake = "none" THEN "Canceled" ELSE rWake
    /\ events' = Append(events, "Canceled")
    /\ UNCHANGED <<rPC, scope, rRet, sshClient, listener, errCh, gKeepalive,
                   gHeartbeat, gAccept, proxy>>
    /\ UNCHANGED <<setupLog, relay, defers, outsideRun>>

\* runKeepalive, lines 195-203: the ticker fires and the request is sent.
KeepaliveTick ==
    /\ gKeepalive = "wait"
    /\ gKeepalive' = "request"
    /\ UNCHANGED <<rPC, parentDone, scope, rWake, rRet, sshClient, listener,
                   errCh, gAccept, gHeartbeat, proxy, events>>
    /\ UNCHANGED <<setupLog, relay, defers, outsideRun>>

\* runKeepalive, lines 204-210: what ends the wait for the reply is a
\* failure unless it is a reply without error.
KeepaliveIgnoresTimeout(outcome) == outcome = "failed"

KeepaliveFailed(outcome) == outcome # "ok"

\* runKeepalive, lines 204-210: the reply arrives, or the request fails (it
\* does once the client is closed), or keepAliveTimeout passes first;
\* runKeepalive returns the failure and the goroutine sends it.
KeepaliveReply(outcome) ==
    /\ gKeepalive = "request"
    /\ outcome = "ok" => sshClient = "open" /\ relay = "up"
    /\ IF ~KeepaliveFailed(outcome)
       THEN gKeepalive' = "wait" /\ UNCHANGED <<rWake, errCh, events>>
       ELSE /\ gKeepalive' = IF outcome = "timeout" THEN "orphan" ELSE "done"
            /\ SendErr("keepalive")
    /\ UNCHANGED <<rPC, parentDone, scope, rRet, sshClient, listener, gAccept,
                   gHeartbeat, proxy>>
    /\ UNCHANGED <<setupLog, relay, defers, outsideRun>>

\* runKeepalive, lines 196-197 and 211-212: a select takes ctx.Done() and
\* runKeepalive returns nil.
KeepaliveCtxDone ==
    /\ gKeepalive \in {"wait", "request"}
    /\ ScopeDone
    /\ gKeepalive' = IF gKeepalive = "request" THEN "orphan" ELSE "done"
    /\ IF KeepaliveSends("nil")
       THEN SendErr("nil")
       ELSE UNCHANGED <<rWake, errCh, events>>
    /\ UNCHANGED <<rPC, parentDone, scope, rRet, sshClient, listener, gAccept,
                   gHeartbeat, proxy>>
    /\ UNCHANGED <<setupLog, relay, defers, outsideRun>>

\* runKeepalive, lines 200-203: the request left outstanding returns and
\* its goroutine ends, its result unread in the one-slot channel.
KeepaliveRequestEnds ==
    /\ gKeepalive = "orphan"
    /\ gKeepalive' = "done"
    /\ UNCHANGED <<rPC, parentDone, scope, rWake, rRet, sshClient, listener,
                   errCh, gAccept, gHeartbeat, proxy, events>>
    /\ UNCHANGED <<setupLog, relay, defers, outsideRun>>

\* Heartbeat goroutine, lines 127-131: the ticker fires and HeartbeatFunc is
\* called.
HeartbeatTick ==
    /\ gHeartbeat = "wait"
    /\ gHeartbeat' = "call"
    /\ UNCHANGED <<rPC, parentDone, scope, rWake, rRet, sshClient, listener,
                   errCh, gKeepalive, gAccept, proxy, events>>
    /\ UNCHANGED <<setupLog, relay, defers, outsideRun>>

\* Heartbeat goroutine, lines 131-141: HeartbeatFunc returns an error,
\* active or inactive.
HeartbeatReturns(res) ==
    /\ gHeartbeat = "call"
    /\ IF res = "inactive"
       THEN gHeartbeat' = "done" /\ SendErr("Inactive")
       ELSE gHeartbeat' = "wait" /\ UNCHANGED <<rWake, errCh, events>>
    /\ UNCHANGED <<rPC, parentDone, scope, rRet, sshClient, listener,
                   gKeepalive, gAccept, proxy>>
    /\ UNCHANGED <<setupLog, relay, defers, outsideRun>>

\* Heartbeat goroutine, lines 128-129: the select takes tunnelCtx.Done().
HeartbeatCtxDone ==
    /\ gHeartbeat = "wait"
    /\ ScopeDone
    /\ gHeartbeat' = "done"
    /\ UNCHANGED <<rPC, parentDone, scope, rWake, rRet, sshClient, listener,
                   errCh, gKeepalive, gAccept, proxy, events>>
    /\ UNCHANGED <<setupLog, relay, defers, outsideRun>>

\* A connection's place is free: none was proxied there, or it has ended.
Ended == {"none", "failed", "done"}

\* Accept goroutine, lines 148-159: Accept returns a connection and
\* proxyConn is started on it in a goroutine of its own (the first free
\* place stands for it).
AcceptConn(i) ==
    /\ gAccept = "accept"
    /\ listener = "open"
    /\ proxy[i] \in Ended
    /\ \A j \in Conns : j < i => proxy[j] \notin Ended
    /\ proxy' = [proxy EXCEPT ![i] = "dial"]
    /\ UNCHANGED <<rPC, parentDone, scope, rWake, rRet, sshClient, listener,
                   errCh, gKeepalive, gHeartbeat, gAccept, events>>
    /\ UNCHANGED <<setupLog, relay, defers, outsideRun>>

\* Accept goroutine, lines 150-157: Accept fails (the connection broke, or
\* the listener was closed); the error is sent unless tunnelCtx is done.
AcceptFails ==
    /\ gAccept = "accept"
    /\ gAccept' = "done"
    /\ IF ScopeDone
       THEN UNCHANGED <<rWake, errCh, events>>
       ELSE SendErr("accept")
    /\ UNCHANGED <<rPC, parentDone, scope, rRet, sshClient, listener,
                   gKeepalive, gHeartbeat, proxy>>
    /\ UNCHANGED <<setupLog, relay, defers, outsideRun>>

\* proxyConn, lines 176-179: what becomes of the error of the local dial:
\* it is logged, and nothing is sent to the supervisor.
DialErrorReported == <<"proxy">>

DialErrorLogged == <<>>

\* proxyConn, lines 175-180: the dial of the local server succeeds, or fails
\* (within its 5 s timeout) and the deferred remote.Close() runs.
ProxyDial(i, ok) ==
    /\ proxy[i] = "dial"
    /\ proxy' = [proxy EXCEPT ![i] = IF ok THEN "copy" ELSE "failed"]
    /\ IF ~ok /\ DialErrorLogged # <<>>
       THEN SendErr(DialErrorLogged[1])
       ELSE UNCHANGED <<rWake, errCh, events>>
    /\ UNCHANGED <<rPC, parentDone, scope, rRet, sshClient, listener,
                   gKeepalive, gHeartbeat, gAccept>>
    /\ UNCHANGED <<setupLog, relay, defers, outsideRun>>

\* proxyConn, lines 182-186: one of the two copies ends (a side closed its
\* connection, or the SSH client was closed and with it the remote side);
\* proxyConn returns and both sockets are closed.
ProxyEnd(i) ==
    /\ proxy[i] = "copy"
    /\ proxy' = [proxy EXCEPT ![i] = "done"]
    /\ UNCHANGED <<rPC, parentDone, scope, rWake, rRet, sshClient, listener,
                   errCh, gKeepalive, gHeartbeat, gAccept, events>>
    /\ UNCHANGED <<setupLog, relay, defers, outsideRun>>

\* The connection to the relay dies during supervision: from now on no
\* request is answered.
RelayDies ==
    /\ rPC \in {"select", "parked"}
    /\ relay = "up"
    /\ relay' = "dead"
    /\ UNCHANGED <<rPC, parentDone, scope, rWake, rRet, sshClient, listener,
                   errCh, gKeepalive, gHeartbeat, gAccept, proxy, events,
                   setupLog, defers>>
    /\ UNCHANGED outsideRun

RunNext ==
    \/ \E ok \in BOOLEAN : RunSetupStep(ok)
    \/ \E takeCtx \in BOOLEAN : RunSelect(takeCtx)
    \/ RunResume
    \/ RunDeferred
    \/ ParentCancel
    \/ KeepaliveTick
    \/ \E outcome \in {"ok", "failed", "timeout"} : KeepaliveReply(outcome)
    \/ KeepaliveCtxDone
    \/ KeepaliveRequestEnds
    \/ HeartbeatTick
    \/ \E res \in {"err", "active", "inactive"} : HeartbeatReturns(res)
    \/ HeartbeatCtxDone
    \/ \E i \in Conns : AcceptConn(i)
    \/ AcceptFails
    \/ \E i \in Conns, ok \in BOOLEAN : ProxyDial(i, ok)
    \/ \E i \in Conns : ProxyEnd(i)
    \/ RelayDies

\* Scheduling: Run's own steps are taken; the keepalive ticker fires and
\* the wait for a reply ends (after keepAliveTimeout at the latest); a
\* HeartbeatFunc call and a dial return (both have timeouts); Accept fails once the listener is closed; a
\* request and a copy end once the SSH client is closed; a select that
\* keeps finding Done() ready eventually takes it.
RunFairness ==
    /\ WF_vars(\E ok \in BOOLEAN : RunSetupStep(ok))
    /\ WF_vars(\E takeCtx \in BOOLEAN : RunSelect(takeCtx))
    /\ WF_vars(RunResume)
    /\ WF_vars(RunDeferred)
    /\ WF_vars(KeepaliveTick)
    /\ WF_vars(\E outcome \in {"ok", "failed", "timeout"} : KeepaliveReply(outcome))
    /\ WF_vars(KeepaliveCtxDone)
    /\ WF_vars(sshClient = "closed" /\ KeepaliveRequestEnds)
    /\ WF_vars(\E res \in {"err", "active", "inactive"} : HeartbeatReturns(res))
    /\ SF_vars(HeartbeatCtxDone)
    /\ WF_vars(listener = "closed" /\ AcceptFails)
    /\ WF_vars(\E i \in Conns, ok \in BOOLEAN : ProxyDial(i, ok))
    /\ WF_vars(\E i \in Conns : sshClient = "closed" /\ ProxyEnd(i))

Init ==
    /\ LockInit /\ AgentInit /\ BackoffInit /\ HostKeyInit /\ ApiInit
    /\ KeyInit /\ RunInit

\* Several agent processes racing on the lock file.
SpecLock == Init /\ [][LockNext]_vars

\* One agent process, from Agent.Run on.
Spec == Init /\ [][AgentNext]_vars

\* One agent process whose main goroutine keeps running.
SpecLive == Init /\ [][AgentNext]_vars /\ WF_vars(RunProgress)

\* Threads calling Next and Reset on one Backoff.
SpecBackoff == Init /\ [][BackoffNext]_vars

\* Handshakes against one known-hosts store, with an operator editing it.
SpecHostKey == Init /\ [][HostKeyNext]_vars

\* agent.New and the calls of the API client.
SpecApi == Init /\ [][ApiNext]_vars

\* writeKey, system call by system call.
SpecKey == Init /\ [][KeyNext]_vars

\* One tunnel.Run with its goroutines, fairly scheduled.
SpecRun == Init /\ [][RunNext]_vars /\ RunFairness

\* A live process holds a successfully acquired lock: its flock was granted
\* and it has neither closed the handle nor terminated.
HoldsLock(p) == procPC[p] \in {"locked", "running"}

\* ------------------------------------------------------------------------
\* Claims about the single-instance lock (checked under SpecLock).
\* ------------------------------------------------------------------------

\* C1 (as claimed): under any interleaving of acquireLock, Agent.Close and
\* process termination, at most one live process at a time holds a
\* successfully acquired lock.  Close drops the flock before it unlinks the
\* path, so a second process can lock the old inode and a third a new one.
C1_AtMostOneHolder == Cardinality({p \in Procs : HoldsLock(p)}) <= 1

\* The step of p in which acquireLock returns the already-running error.
ContendedStep(p) ==
    /\ procPC[p] = "opened"
    /\ lockErr'[p] = "alreadyRunning"

\* The step of p in which acquireLock records the pid and returns the handle.
RecordStep(p) ==
    /\ procPC[p] = "locked"
    /\ procPC'[p] = "running"

\* Two holders never hold the flock of the same lock file (inode).
OneHolderPerFile ==
    \A p, q \in Procs :
        (p # q /\ HoldsLock(p) /\ HoldsLock(q)) => lockFH[p] # lockFH[q]

\* A call fails with the already-running error only while another process
\* holds the lock of the same file; the failing step leaves every file's
\* contents, the path and the holder as they were.
ContendedCallIsHarmless(p) ==
    ContendedStep(p) =>
        /\ \E q \in Procs \ {p} :
              /\ HoldsLock(q)
              /\ lockFH[q] = lockFH[p]
              /\ HoldsLock(q)'
              /\ (procPC[q] = "running" /\ pidRecorded[q] = "ok")
                    => fileData'[lockFH[q]] = PidText(q)
        /\ fileData' = fileData
        /\ lockPath' = lockPath
        /\ flockHolder' = flockHolder

\* The flock is granted only on a file nobody holds.
GrantOnlyWhenFree(p) ==
    (procPC[p] = "opened" /\ procPC'[p] = "locked")
        => flockHolder[lockFH[p]] = NoProc

\* No call that fails, at any of its steps, changes a lock file's contents:
\* the only step that writes is the pid recording of a call whose flock was
\* granted.
OnlyAcquirerWrites ==
    (fileData' # fileData) => \E p \in Procs : RecordStep(p)

ListenStep == tpc = "listen" /\ tpc' # "listen"

\* C3: whatever the config, the address tunnel.Run requests for the
\* relay-side reverse forward is exactly the text "127.0.0.1:" followed by
\* the config's tunnel port in decimal, and no other step sets an address.
C3_BindAddrIsLoopback ==
    [][ /\ ListenStep =>
              bindAddr' = <<"1", "2", "7", ".", "0", ".", "0", ".", "1", ":">>
                             \o FormatInt(cfg.TunnelPort)
        /\ (bindAddr' # bindAddr) => (ListenStep \/ bindAddr' = <<>>) ]_vars

\* C3 witness: a tunnel is up whose forward was requested at 127.0.0.1:9000
\* (the config's host being r.example).
C3_Witness ==
    /\ tpc = "supervise"
    /\ bindAddr = <<"1", "2", "7", ".", "0", ".", "0", ".", "1", ":",
                    "9", "0", "0", "0">>

\* The step in which FetchConfig returns a config with active=false.
InactiveFetchStep == pc = "fetch" /\ cyc'.fetch = "inactive"

\* C4: a cycle whose FetchConfig returned active=false runs no probe, no key
\* write and no tunnel.Run; it waits inactivePollInterval (5 minutes), a wait
\* that only cancellation cuts short, then fetches again; Backoff's base
\* stays what it was when the cycle began.
C4_InactiveConfigWaits ==
    /\ [](cyc.fetch = "inactive" =>
             /\ ~cyc.probed
             /\ cyc.key = "no"
             /\ ~cyc.tunnel
             /\ tpc = "idle"
             /\ current = curAtCycleStart
             /\ pc \in {"sleep", "loop", "returned"}
             /\ (pc = "sleep") => (sleepKind = "inactive" /\ sleepFor = 300000)
             /\ (pc = "returned") => ctxCancelled)
    /\ [][ /\ InactiveFetchStep =>
                 /\ pc' = "sleep"
                 /\ keyFile' = keyFile
                 /\ current' = current
           /\ (cyc.fetch = "inactive" /\ pc = "sleep" /\ pc' # "sleep") =>
                 (pc' = "loop" \/ (ctxCancelled /\ pc' = "returned"))
           /\ (cyc.fetch = "inactive" /\ pc = "loop" /\ pc' # "loop") =>
                 (pc' = "fetch" \/ (ctxCancelled /\ pc' = "returned")) ]_vars

\* C4 witness: the 5-minute wait of an inactive cycle, entered with a base
\* that earlier failures had advanced.
C4_Witness ==
    /\ pc = "sleep"
    /\ cyc.fetch = "inactive"
    /\ sleepFor = inactivePollInterval
    /\ curAtCycleStart > DefaultInitial
    /\ current = curAtCycleStart

\* tunnel.Run was invoked in this cycle and has returned.
TunnelReturned == cyc.tunnel /\ tpc = "idle" /\ lastErr # "none"

\* The step in which a supervised tunnel.Run returns.
SupervisedReturnStep == tpc = "supervise" /\ tpc' = "idle"

\* Once tunnel.Run has returned Inactive: the heartbeat loop had sent it for
\* an error-free active=false response, the tunnel's goroutines are gone,
\* the orchestrator waits 5 minutes without a Backoff.Next and then goes
\* back to the loop's head (or returns, when cancelled).
InactiveReturnHandled ==
    (TunnelReturned /\ lastErr = "Inactive") =>
        /\ hbSent = "inactive"
        /\ ka = "idle" /\ hb = "idle" /\ acc = "idle"
        /\ lastBase = 0
        /\ current = (IF lastStable THEN DefaultInitial ELSE curAtCycleStart)
        /\ pc \in {"sleep", "loop", "returned"}
        /\ (pc = "sleep") => (sleepKind = "inactive" /\ sleepFor = 300000)
        /\ (pc = "returned") => ctxCancelled

\* An error-free active=false heartbeat ends the heartbeat loop with Inactive
\* queued for tunnel.Run's select.
InactiveIsQueued ==
    (hbSent = "inactive" /\ tpc = "supervise") =>
        /\ hb = "done"
        /\ \E i \in 1..Len(tunnelErr) : tunnelErr[i] = "Inactive"

FailingHeartbeatStep ==
    \/ hb = "call" /\ hb' \in {"wait", "done"} /\ hbLast' \in {"transport", "status"}
    \/ hb = "wait" /\ hb' = "wait" /\ hbFails' # hbFails

\* C6: a failing heartbeat leaves the tunnel up and the heartbeat loop
\* running, however many have failed before; a supervised tunnel.Run returns
\* only for a cancellation, a keepalive error, an accept error or an
\* error-free active=false heartbeat, and the heartbeat loop ends only for
\* the last of these or when its context is done.
C6_HeartbeatFailuresKeepTunnel ==
    [][ /\ FailingHeartbeatStep =>
              /\ tpc' = "supervise"
              /\ pc' = "tunnel"
              /\ tunnelErr' = tunnelErr
              /\ hb' = "wait"
              /\ ka' = ka
              /\ acc' = acc
        /\ SupervisedReturnStep =>
              \/ lastErr' = "Canceled" /\ ctxCancelled
              \/ lastErr' \in {"keepalive", "accept"}
              \/ lastErr' = "Inactive" /\ hbSent = "inactive"
        /\ (hb \in {"wait", "call"} /\ hb' = "done") =>
              (ctxCancelled \/ hbSent' = "inactive") ]_vars

\* C6 witness: a tunnel that is still up, its heartbeat loop still waiting
\* for the next tick, after two failed heartbeats, the last one a transport
\* failure.
C6_Witness ==
    /\ tpc = "supervise"
    /\ pc = "tunnel"
    /\ hb = "wait"
    /\ hbFails >= 2
    /\ hbLast = "transport"
    /\ tunnelErr = <<>>
    /\ ~ctxCancelled

\* C7: when the startup ValidateToken gets anything but a 200, Agent.Run has
\* returned the validation error after that one call, and no FetchConfig, no
\* key write and no tunnel.Run has happened.
C7_ValidationFailureIsFatal ==
    (validateResp = "failed") =>
        /\ pc = "returned"
        /\ runRet \in {"validation", "validationCanceled"}
        /\ validateCalls = 1
        /\ cyc = FreshCycle
        /\ keyFile = NoFile
        /\ tpc = "idle"
        /\ bindAddr = <<>>
        /\ lastErr = "none"

\* C7 witness: Agent.Run has returned the validation error although the
\* context was never cancelled.
C7_Witness ==
    /\ validateResp = "failed"
    /\ runRet = "validation"
    /\ ~ctxCancelled

\* C8: ValidateToken is called once, and with success before anything of a
\* cycle; a cycle begins with FetchConfig; the probe and the key step follow
\* a fetch that returned an active config only; tunnel.Run is invoked only
\* after a key step that succeeded, hence in no cycle whose fetch failed,
\* whose config was inactive or whose key step failed.
C8_CycleOrdering ==
    /\ validateCalls <= 1
    /\ (pc # "validate") => validateCalls = 1
    /\ (pc \in {"loop", "fetch", "probe", "key", "tunnel", "sleep"} \/ cyc # FreshCycle)
          => validateResp = "ok"
    /\ (pc = "fetch") => cyc = FreshCycle
    /\ (pc = "probe") => (cyc.fetch = "active" /\ cyc.key = "no" /\ ~cyc.tunnel)
    /\ (pc = "key") => (cyc.fetch = "active" /\ cyc.key = "no" /\ ~cyc.tunnel)
    /\ cyc.probed => cyc.fetch = "active"
    /\ (cyc.key # "no") => cyc.fetch = "active"
    /\ cyc.tunnel => cyc.key \in {"written", "read"}
    /\ (tpc # "idle") => (cyc.tunnel /\ pc = "tunnel")
    /\ (pc = "tunnel") => tpc # "idle"

\* C8 witness: a tunnel is up in a cycle whose key was read back from disk,
\* the config having delivered none.
C8_Witness ==
    /\ tpc = "supervise"
    /\ cyc.fetch = "active"
    /\ cyc.key = "read"
    /\ validateCalls = 1

\* The step in which a tunnel.Run returns that lasted 60 s or more.
StableReturnStep ==
    /\ tpc # "idle"
    /\ tpc' = "idle"
    /\ elapsed * heartbeatInterval >= 60000

\* C9: when a tunnel.Run that lasted 60 s or more returns, whatever it
\* returns, Backoff is back at its initial base before any wait is
\* computed: a transient error then waits 2 s +-25% (and leaves the base
\* doubled once), a cancellation or Inactive leaves the base at 2 s.
C9_StableRunResetsBackoff ==
    /\ [][ StableReturnStep =>
              /\ lastErr' \in {"Canceled", "Inactive"} => current' = 2000
              /\ lastErr' \notin {"Canceled", "Inactive"} =>
                    /\ pc' = "sleep"
                    /\ sleepKind' = "backoff"
                    /\ sleepFor' >= 1500
                    /\ sleepFor' <= 2500
                    /\ current' = 4000 ]_vars
    /\ []((lastStable /\ sleepKind = "backoff") => lastBase = 2000)

\* C9 witness: the wait after a keepalive error that ended a stable run, the
\* base having been advanced by earlier failures; the wait is below 2 s.
C9_Witness ==
    /\ pc = "sleep"
    /\ sleepKind = "backoff"
    /\ lastStable
    /\ lastErr = "keepalive"
    /\ curAtCycleStart > DefaultInitial
    /\ sleepFor < DefaultInitial

\* The base Backoff.Next works on at the k-th consecutive transient failure.
BaseOfFailure(k) == Min(2000 * (2 ^ (k - 1)), 300000)

\* C10: only the return of a tunnel.Run that lasted 60 s or more lowers
\* Backoff's base; a successful FetchConfig, an inactive wait and a shorter
\* run leave it alone; so the wait after the k-th transient failure since
\* the last such run is within +-25% of min(2 s * 2^(k-1), 5 min).
C10_ResetOnlyByStableRun ==
    /\ []((sleepKind = "backoff") =>
             /\ failsSinceStable >= 1
             /\ lastBase = BaseOfFailure(failsSinceStable)
             /\ 4 * sleepFor >= 3 * lastBase
             /\ 4 * sleepFor <= 5 * lastBase)
    /\ [][ /\ (current' < current) => StableReturnStep
           /\ (current' # current) =>
                 (StableReturnStep \/ (pc # "sleep" /\ sleepKind' = "backoff"))
           /\ (pc = "fetch" /\ pc' = "probe") => current' = current
           /\ (pc = "sleep") => current' = current ]_vars

\* C10 witness: the wait after the failure at which the base has reached the
\* 5-minute cap, that failure being a tunnel.Run shorter than 60 s.
C10_Witness ==
    /\ pc = "sleep"
    /\ sleepKind = "backoff"
    /\ failsSinceStable = FailCap
    /\ lastBase = DefaultMax
    /\ cyc.tunnel
    /\ ~lastStable

\* ------------------------------------------------------------------------
\* Properties of Backoff (specification SpecBackoff).
\* ------------------------------------------------------------------------

\* The step in which thread t's Next returns d.
NextReturnStep(t) == boPC[t] = "nextAdvanced" /\ boPC'[t] = "idle"

\* The step in which thread t's Next computes d from base.
NextJitterStep(t) == boPC[t] = "nextLocked" /\ boPC'[t] = "nextJittered"

\* The step in which thread t's Next advances current.
NextAdvanceStep(t) == boPC[t] = "nextJittered" /\ boPC'[t] = "nextAdvanced"

\* The step in which thread t's Reset assigns current.
ResetSetStep(t) == boPC[t] = "resetLocked" /\ boPC'[t] = "resetDone"

\* C11: whatever Next and Reset calls came before, the duration a Next
\* returns is strictly positive, lies in [0.75 * 2 s, 1.25 * 5 min], and lies
\* in [0.75 * base, 1.25 * base] for base the value current had when the
\* call began.
C11_NextWithinJitter ==
    [][ \A t \in Threads :
          NextReturnStep(t) =>
              /\ boD[t] > 0
              /\ 4 * boD[t] >= 3 * 2000
              /\ 4 * boD[t] <= 5 * 300000
              /\ 4 * boD[t] >= 3 * boCallBase[t]
              /\ 4 * boD[t] <= 5 * boCallBase[t] ]_vars

\* C11 witness: a Next that began with current at the 5-minute cap is about
\* to return the lowest duration the jitter allows, 0.75 * 5 min.
C11_Witness ==
    \E t \in Threads :
        /\ boPC[t] = "nextAdvanced"
        /\ boCallBase[t] = DefaultMax
        /\ 4 * boD[t] = 3 * DefaultMax

\* C12: a Reset leaves current at 2 s whatever Next calls preceded it, and
\* current stays there until a Next advances it; that Next computes a
\* duration in [0.75 * 2 s, 1.25 * 2 s].
C12_ResetRestoresInitial ==
    /\ [](boAfterReset => boCurrent = 2000)
    /\ [][ \A t \in Threads :
             /\ ResetSetStep(t) => (boCurrent' = 2000 /\ boAfterReset')
             /\ (NextJitterStep(t) /\ boAfterReset) =>
                   /\ boBase'[t] = 2000
                   /\ 4 * boD'[t] >= 3 * 2000
                   /\ 4 * boD'[t] <= 5 * 2000 ]_vars

\* C12 witness: after a Reset that found current at the 5-minute cap, the
\* following Next has computed a duration above 2 s.
C12_Witness ==
    \E t \in Threads :
        /\ boAfterReset
        /\ boPrev = DefaultMax
        /\ boPC[t] = "nextJittered"
        /\ boD[t] > DefaultInitial

\* C13: calls are serialised by the mutex: at most one thread is inside Next
\* or Reset, and it holds the mutex; a Next advances the very value it read
\* as base, which is the value current had when the call began; current
\* stays within [2 s, 5 min] and changes only where a Next advances it or a
\* Reset assigns it.
C13_CallsAreAtomic ==
    /\ [](/\ boCurrent >= 2000
          /\ boCurrent <= 300000
          /\ Cardinality({t \in Threads : boPC[t] # "idle"}) <= 1
          /\ \A t \in Threads : (boPC[t] # "idle") => boMu = t)
    /\ [][ /\ \A t \in Threads :
                NextAdvanceStep(t) =>
                    /\ boBase[t] = boCurrent
                    /\ boCallBase[t] = boCurrent
                    /\ boCurrent' = (IF 2 * boCurrent > 300000 THEN 300000
                                     ELSE 2 * boCurrent)
           /\ (boCurrent' # boCurrent) =>
                 \E t \in Threads : NextAdvanceStep(t) \/ ResetSetStep(t) ]_vars

\* C13 witness: one thread is inside a Next that has advanced current to the
\* 5-minute cap while the other thread, idle, cannot enter.
C13_Witness ==
    \E t, u \in Threads :
        /\ t # u
        /\ boPC[t] = "nextAdvanced"
        /\ boMu = t
        /\ boCallBase[t] < DefaultMax
        /\ boCurrent = DefaultMax
        /\ boPC[u] = "idle"

\* ------------------------------------------------------------------------
\* Properties of the host-key callback (specification SpecHostKey).
\* ------------------------------------------------------------------------

\* The step in which a handshake calls the callback.
HandshakeStep == khSeq' # khSeq

\* The pattern under which a relay address is recorded: the host alone for
\* port 22, "[host]:port" for another port.
RecordedPattern(hostname) ==
    IF hostname = <<"r", ".", "e", "x", "a", "m", "p", "l", "e", ":", "2", "2">>
    THEN <<"r", ".", "e", "x", "a", "m", "p", "l", "e">>
    ELSE <<"[", "r", ".", "e", "x", "a", "m", "p", "l", "e", "]", ":",
           "2", "2", "2", "2">>

\* The keys a store records for a relay address.
RecordedKeys(lines, hostname) ==
    {lines[i].key : i \in {j \in 1..Len(lines) :
                              lines[j].pattern = RecordedPattern(hostname)}}

\* C14: at a handshake whose store can be read: a host without an entry is
\* accepted with the key it presents and the pair (normalised host, key) is
\* appended (the append succeeding); a host whose recorded key is the
\* presented one is accepted; a host whose recorded key differs is rejected
\* as a mismatch; the last two leave the store as it is.
C14_TrustOnFirstUse ==
    [][ (HandshakeStep /\ khLast'.load) =>
          LET h == khLast'.hostname
              k == khLast'.key
              rec == RecordedKeys(khFile, h)
          IN  /\ (rec = {} /\ khLast'.save = "ok") =>
                    /\ khLast'.verdict = "tofu"
                    /\ khFile' = Append(khFile, [pattern |-> RecordedPattern(h),
                                                 key |-> k])
              /\ (k \in rec) =>
                    (khLast'.verdict = "accepted" /\ khFile' = khFile)
              /\ (rec # {} /\ k \notin rec) =>
                    (khLast'.verdict = "mismatch" /\ khFile' = khFile) ]_vars

\* C14 witness: the relay on port 2222, recorded with keyA, has presented
\* keyB and been rejected as a mismatch, the store still holding keyA only.
C14_Witness ==
    /\ khLast.verdict = "mismatch"
    /\ khLast.key = "keyB"
    /\ khLast.hostname = <<"r", ".", "e", "x", "a", "m", "p", "l", "e", ":",
                           "2", "2", "2", "2">>
    /\ khFile = <<[pattern |-> <<"[", "r", ".", "e", "x", "a", "m", "p", "l",
                                 "e", "]", ":", "2", "2", "2", "2">>,
                   key |-> "keyA"]>>

\* C15: the callback decides on the store as it is at the handshake, not as
\* it was when the callback was built: a host recorded with another key at
\* build time whose entry has since been removed is accepted and recorded;
\* a host unrecorded at build time whose entry has since been added with
\* another key is rejected; the callback in use stays the same one.
C15_StoreIsReadAtEachHandshake ==
    [][ (HandshakeStep /\ khLast'.load) =>
          LET h == khLast'.hostname
              k == khLast'.key
              then == RecordedKeys(khAtBuild, h)
              now == RecordedKeys(khFile, h)
          IN  /\ khBuilt /\ khBuilt'
              /\ khAtBuild' = khAtBuild
              /\ (then # {} /\ k \notin then /\ now = {} /\ khLast'.save = "ok") =>
                    /\ khLast'.verdict = "tofu"
                    /\ RecordedKeys(khFile', h) = {k}
              /\ (then = {} /\ now # {} /\ k \notin now) =>
                    /\ khLast'.verdict = "mismatch"
                    /\ khFile' = khFile
              /\ (then # {} /\ k \notin then /\ k \in now) =>
                    khLast'.verdict = "accepted" ]_vars

\* C15 witness: a callback built while the store recorded the host with one
\* key has accepted and recorded the other key, the entry having been
\* removed in between.
C15_Witness ==
    /\ khBuilt
    /\ khLast.verdict = "tofu"
    /\ khAtBuild # NoStore
    /\ RecordedKeys(khAtBuild, khLast.hostname) # {}
    /\ khLast.key \notin RecordedKeys(khAtBuild, khLast.hostname)
    /\ khFile # NoStore
    /\ RecordedKeys(khFile, khLast.hostname) = {khLast.key}

\* ---- Claims about agent.New and the API client ----

\* The text begins with "https://", read character by character.
BeginsWithHttps(url) ==
    /\ Len(url) >= 8
    /\ url[1] = "h" /\ url[2] = "t" /\ url[3] = "t" /\ url[4] = "p"
    /\ url[5] = "s" /\ url[6] = ":" /\ url[7] = "/" /\ url[8] = "/"

\* C16: api.New returns a client exactly when the base URL begins with
\* "https://"; for any other base URL agent.New fails with the client's
\* error, acquireLock has not been called, and no request is ever sent.
C16_ClientRequiresHttps ==
    (anPC # "start") =>
        /\ (baseURL # <<>>) <=> BeginsWithHttps(anURL)
        /\ ~BeginsWithHttps(anURL) =>
              /\ anPC = "failed"
              /\ anErr = "apiClient"
              /\ ~anLockCalled
              /\ apiSent = {}
              /\ apiLast.call = "none"

\* C16 witness: agent.New was called with a plain-HTTP base URL and failed.
C16_Witness ==
    /\ anPC = "failed"
    /\ anURL = <<"h", "t", "t", "p", ":", "/", "/", "a">>
    /\ ~anLockCalled

\* C17: every request that carries the bearer token, the heartbeat POST
\* included, goes to a URL that begins with "https://".
C17_TokenOnlyOverHttps == \A url \in apiSent : BeginsWithHttps(url)

InvalidCredential == {"invalidToken"}

Transient == {"transport", "unexpectedStatus"}

\* C19: ValidateToken returns nil exactly when the status is 200; 401 and
\* 403 give the invalid-token error; any other status and any failure to
\* get a response give one of the transient errors.
C19_ValidateTokenClassification ==
    (apiLast.call = "validate") =>
        LET r == apiLast.r
            err == apiLast.err
        IN  /\ (err = "nil") <=> (~r.transport /\ r.status = 200)
            /\ (~r.transport /\ r.status \in {401, 403}) =>
                  err \in InvalidCredential
            /\ (r.transport \/ r.status \notin {200, 401, 403}) =>
                  err \in Transient

\* C19 witness: a validation answered 204 returned a transient error.
C19_Witness ==
    /\ apiLast.call = "validate"
    /\ ~apiLast.r.transport
    /\ apiLast.r.status = 204
    /\ apiLast.err \in Transient

\* A FetchConfig call has just returned.
FetchStep == apiLast' # apiLast /\ apiLast'.call = "fetch"

\* The response is a 200 whose body decodes with host, port and tunnel_port
\* all present.
WellFormed(r) ==
    /\ ~r.transport
    /\ r.status = 200
    /\ r.decodes
    /\ r.body.Host # ""
    /\ r.body.Port # 0
    /\ r.body.TunnelPort # 0

\* C20: FetchConfig returns a config exactly when the response is well
\* formed, and an error and no config otherwise; the config in use always
\* has a host, a port and a tunnel port.
C20_FetchConfigValidates ==
    /\ [](apiCfg.fetched =>
            (apiCfg.Host # "" /\ apiCfg.Port # 0 /\ apiCfg.TunnelPort # 0))
    /\ [][ FetchStep =>
             LET r == apiLast'.r
             IN  /\ (apiLast'.err = "nil") <=> WellFormed(r)
                 /\ WellFormed(r) =>
                       /\ apiCfg'.fetched
                       /\ apiCfg'.Host = r.body.Host
                       /\ apiCfg'.Port = r.body.Port
                       /\ apiCfg'.TunnelPort = r.body.TunnelPort
                 /\ ~WellFormed(r) => apiCfg' = apiCfg ]_vars

\* C20 witness: a 200 whose body lacks only tunnel_port was refused, and no
\* config is held.
C20_Witness ==
    /\ apiLast.call = "fetch"
    /\ ~apiLast.r.transport
    /\ apiLast.r.status = 200
    /\ apiLast.r.decodes
    /\ apiLast.r.body.Host # ""
    /\ apiLast.r.body.Port # 0
    /\ apiLast.r.body.TunnelPort = 0
    /\ apiLast.err # "nil"
    /\ ~apiCfg.fetched

\* ---- Claims about writeKey ----

\* The step in which writeKey returns nil.
WriteKeySucceeds == wkPC # "idle" /\ wkPC' = "idle" /\ wkRet' = "nil"

\* C21: when writeKey(k) returns nil, whatever the key file was before, the
\* file holds exactly k and its mode is exactly 0600.
C21_WriteKeyRoundTrip ==
    [][ WriteKeySucceeds =>
          (kfMode' # 0 /\ kfData' = wkKey /\ kfMode' = 384) ]_vars

\* C29: from the call to writeKey on, whether it returns, fails or the
\* process is killed, the key file holds the complete previous key or the
\* complete new key, and that is all a reader ever sees.
C29_KeyWriteIsAtomic ==
    /\ (wkPC # "idle" \/ wkRet = "crashed") =>
          \/ kfMode # 0 /\ kfData = wkKey
          \/ (kfMode = 0) = (kfPrev.mode = 0) /\ kfData = kfPrev.data
    /\ (kfRead.result = "ok") => kfRead.data \in PemKeys

\* ---- Claims about the key step of a cycle ----

\* The cycle is past its key step, or has ended without one.
CycleAfterKey == pc \in {"tunnel", "sleep", "loop", "returned"}

\* C22: a fetched config that carries a private key has, by the end of its
\* cycle, had the key file overwritten with that key (a write that the file
\* system refused apart), whether the config is active or not.
C22_DeliveredKeyIsStored ==
    (CycleAfterKey /\ cyc.delivered # "" /\ cyc.key # "writeFailed") =>
        keyFile = cyc.delivered

\* The key step of a cycle whose active config carries no private key.
KeylessKeyStep == pc = "key" /\ cfg.PrivateKey = "" /\ pc' # "key"

\* C23: the key step of an active config without a private key leaves the
\* key file as it is; with a file present it hands the file's contents to
\* tunnel.Run; with the file absent the cycle ends with a transient error
\* before tunnel.Run, Backoff is advanced and the orchestrator waits to
\* retry.
C23_KeyReadBackOrTransient ==
    [][ KeylessKeyStep =>
          /\ cfg.Active
          /\ keyFile' = keyFile
          /\ (keyFile # "<absent>") =>
                /\ pc' = "tunnel"
                /\ tpc' = "parse"
                /\ cyc'.tunnel
                /\ privateKey' = keyFile
          /\ (keyFile = "<absent>") =>
                /\ pc' = "sleep"
                /\ sleepKind' = "backoff"
                /\ tpc' = "idle"
                /\ ~cyc'.tunnel
                /\ lastErr' = "noKey"
                /\ current' = Min(2 * current, 300000)
                /\ 4 * sleepFor' >= 3 * current
                /\ 4 * sleepFor' <= 5 * current ]_vars

\* C23 witness: a cycle whose config had no key is parsing the key it read
\* back from the file an earlier cycle wrote.
C23_Witness ==
    /\ pc = "tunnel"
    /\ tpc = "parse"
    /\ cyc.key = "read"
    /\ cyc.delivered = ""
    /\ privateKey = "pem1"
    /\ keyFile = "pem1"

\* ---- Claims about cancellation and shutdown ----

C26_RunReturnsNilOnShutdown ==
    (pc = "returned") =>
        /\ ctxCancelled => runRet = "nil"
        /\ (runRet # "nil") => (runRet = "validation" /\ ~ctxCancelled)

\* ---- tunnel.Run: which event decides (C27) ----

\* Run leaves its supervision (the final select) in this step.
SupervisionEnds == rPC \in {"select", "parked"} /\ rPC' = "returned"

\* The errors reported on tunnelErr so far, in order.
ReportedErrors == SelectSeq(events, LAMBDA e : e # "Canceled")

\* C27 as stated: tunnel.Run returns the outcome of the first event to
\* occur among context cancelled, keepalive error, accept error and inactive
\* signal.
C27_FirstEventWins == [][SupervisionEnds => rRet' = Head(events)]_vars

\* C27, amended: tunnel.Run returns a non-nil outcome, the cancellation
\* error (only if the context is cancelled) or the first error reported
\* (never a later one); it is the first event to occur whenever Run is
\* waiting in its select when that event occurs, or when only one kind of
\* event has occurred by the time Run reaches the select; and what Run
\* returned is not changed by errors reported afterwards.
C27_FirstErrorOrCancellation ==
    /\ [][SupervisionEnds =>
            /\ rRet' \in {"Canceled", "Inactive", "keepalive", "accept"}
            /\ rRet' = "Canceled" => parentDone
            /\ rRet' # "Canceled" => rRet' = Head(ReportedErrors)
            /\ (rPC = "parked" \/ ReportedErrors = <<>> \/ ~parentDone)
                  => rRet' = Head(events)]_vars
    /\ [][rPC = "returned" => rRet' = rRet /\ rPC' = rPC]_vars

\* Run returned the Inactive sentinel, first reported, and an error reported
\* after its return sits discarded in the channel.
C27_Witness ==
    /\ rPC = "returned"
    /\ rRet = "Inactive"
    /\ Len(ReportedErrors) > 1
    /\ errCh # <<>>

\* ---- tunnel.Run: what is left behind (C28) ----

\* Run has returned to its caller: its deferred calls have run.
BackInCaller == rPC = "returned" /\ defers = <<>>

\* Nothing that Run started is still running or holds a socket.
AllStopped ==
    /\ gKeepalive \in {"none", "done"}
    /\ gHeartbeat \in {"none", "done"}
    /\ gAccept \in {"none", "done"}
    /\ \A i \in Conns : proxy[i] \in Ended

\* C28: once tunnel.Run has returned, on any path, the SSH client and the
\* relay listener it opened are closed and tunnelCtx is cancelled, and the
\* keepalive loop, the heartbeat loop, the accept loop and every proxy
\* eventually end, sockets closed, and stay ended.
C28_RunReleasesEverything ==
    /\ [](BackInCaller =>
             sshClient # "open" /\ listener # "open" /\ scope # "live")
    /\ (rPC = "returned") ~> (BackInCaller /\ AllStopped)
    /\ [][BackInCaller /\ AllStopped => AllStopped']_vars

\* Run returned on a keepalive error after a connection had been proxied,
\* and all it had started has ended.
C28_Witness ==
    /\ BackInCaller
    /\ rRet = "keepalive"
    /\ sshClient = "closed"
    /\ listener = "closed"
    /\ scope = "cancelled"
    /\ gHeartbeat = "done"
    /\ gAccept = "done"
    /\ proxy[1] = "done"
    /\ AllStopped

\* ---- The known-hosts store is only appended to (C30) ----

\* The entries of a store; a missing file has none.
Entries(file) == IF file = NoStore THEN <<>> ELSE file

\* A step of the agent on the store: the callback is called, or built.
AgentStoreStep == HandshakeStep \/ khBuilds' # khBuilds

\* The relay at hostname presents key while the store records the host with
\* other keys only (the relay key was rotated).
Rotated(file, hostname, key) ==
    /\ RecordedKeys(Entries(file), hostname) # {}
    /\ key \notin RecordedKeys(Entries(file), hostname)

\* C30: a step of the agent changes the entries of the known-hosts store
\* only by appending the one entry of a host it TOFU-accepts, which had
\* none; accepting a matching key and rejecting a differing key leave the
\* store as it is; so a rotated relay key stays rotated through every step
\* of the agent, each handshake with it (the store being readable) is
\* rejected as a mismatch, and the failed dial is retried under Backoff.
C30_StoreOnlyAppendedOnTOFU ==
    /\ [][ AgentStoreStep =>
             \/ Entries(khFile') = Entries(khFile)
             \/ /\ HandshakeStep
                /\ khLast'.verdict = "tofu"
                /\ RecordedKeys(Entries(khFile), khLast'.hostname) = {}
                /\ khFile' = Append(Entries(khFile),
                                    [pattern |-> RecordedPattern(khLast'.hostname),
                                     key |-> khLast'.key]) ]_vars
    /\ [][ (HandshakeStep /\ khLast'.verdict \in {"accepted", "mismatch"}) =>
             khFile' = khFile ]_vars
    /\ [][ AgentStoreStep =>
             \A h \in Hostnames, k \in HostKeys :
                 Rotated(khFile, h, k) => Rotated(khFile', h, k) ]_vars
    /\ [][ (HandshakeStep /\ khLast'.load
               /\ Rotated(khFile, khLast'.hostname, khLast'.key)) =>
             /\ khLast'.verdict = "mismatch"
             /\ Classify("dial") = "backoff" ]_vars

\* C30 witness: with both relay addresses recorded, the one on port 22 has
\* presented a key other than its recorded one and been rejected, both
\* entries still in the store.
C30_Witness ==
    /\ khFile # NoStore
    /\ Len(khFile) = 2
    /\ khLast.verdict = "mismatch"
    /\ khLast.hostname = <<"r", ".", "e", "x", "a", "m", "p", "l", "e", ":",
                           "2", "2">>
    /\ Rotated(khFile, khLast.hostname, khLast.key)

\* ---- FetchConfig errors in the run loop (C31) ----

\* The errors of FetchConfig: transport, status and validation failures.
FetchErrors ==
    {"transport", "unauthorized", "unexpectedStatus", "decode", "missingHost",
     "missingPort", "missingTunnelPort"}

\* runCycle's FetchConfig returns an error, the context not being cancelled.
FetchFailsStep == pc = "fetch" /\ ~ctxCancelled /\ cyc'.fetch = "err"

\* C31: a FetchConfig error in the run loop (the context not being
\* cancelled), whichever it is, makes Agent.Run advance Backoff and wait
\* Next(): Run does not return and ValidateToken is not called; the wait ends
\* by its timer, and then the loop fetches again, or by cancellation.
C31_FetchErrorsAreTransient ==
    /\ [][ FetchFailsStep =>
             /\ cyc'.fetchErr \in FetchErrors
             /\ pc' = "sleep"
             /\ sleepKind' = "backoff"
             /\ current' = Min(current * 2, 300000)
             /\ 4 * sleepFor' >= 3 * current
             /\ 4 * sleepFor' <= 5 * current
             /\ runRet' = "none"
             /\ validateCalls' = validateCalls ]_vars
    /\ [][ (cyc.fetch = "err" /\ pc = "sleep" /\ pc' # "sleep") =>
             \/ sleepWake = "timer" /\ pc' = "loop"
             \/ ctxCancelled /\ pc' = "returned" ]_vars
    /\ [][ (cyc.fetch = "err" /\ pc = "loop" /\ pc' # "loop") =>
             /\ validateCalls' = validateCalls
             /\ \/ ~ctxCancelled /\ pc' = "fetch"
                \/ ctxCancelled /\ pc' = "returned" ]_vars

\* C31 witness: FetchConfig has been refused with 401 or 403 for the second
\* cycle running, and Run waits under Backoff, the token validated once.
C31_Witness ==
    /\ pc = "sleep"
    /\ sleepKind = "backoff"
    /\ ~ctxCancelled
    /\ cyc.fetchErr = "unauthorized"
    /\ failsSinceStable = 2
    /\ current = 8000
    /\ validateCalls = 1
    /\ runRet = "none"

\* ---- tunnel.Run: the order of the setup (C32) ----

\* Run returns from its setup in this step.
SetupFails == rPC \in {"parse", "hostkey", "dial", "listen"} /\ rPC' = "returned"

\* The first k steps of the setup, in the order of the claim.
FirstSteps(k) == SubSeq(<<"parse", "hostkey", "dial", "listen">>, 1, k)

\* C32: the setup steps of tunnel.Run are performed in the order parse
\* private key, build host-key verifier, dial, request the forward; when a
\* step fails Run returns at once the error of that step, a transient one
\* for Agent.Run, no later step having been performed (after a key parse
\* failure neither the host-key verifier was built nor the relay dialled)
\* and no keepalive, heartbeat or accept loop started; the loops run only
\* after all four steps.
C32_SetupInOrder ==
    /\ [](\E k \in 0..4 : setupLog = FirstSteps(k))
    /\ [][ SetupFails =>
             /\ rRet' = rPC
             /\ setupLog' = FirstSteps(Len(setupLog'))
             /\ setupLog'[Len(setupLog')] = rPC
             /\ rPC = "parse" => setupLog' = <<"parse">> /\ sshClient' = "none"
             /\ rPC \in {"parse", "hostkey", "dial"} => listener' = "none"
             /\ gKeepalive' = "none" /\ gHeartbeat' = "none" /\ gAccept' = "none"
             /\ errCh' = <<>>
             /\ \A e \in {"parseKey", "hostKeySetup", "dial", "listen"} :
                    Classify(e) = "backoff" ]_vars
    /\ []((gKeepalive # "none" \/ gHeartbeat # "none" \/ gAccept # "none")
              => setupLog = FirstSteps(4))

\* C32 witness: the dial failed after the key was parsed and the verifier
\* built; Run has returned the dial error, nothing started.
C32_Witness ==
    /\ rPC = "returned"
    /\ rRet = "dial"
    /\ setupLog = <<"parse", "hostkey", "dial">>
    /\ sshClient = "none"
    /\ gAccept = "none"

\* ---- The keepalive loop (C33) ----

\* The keepalive loop ends while its request awaits the reply.
KeepaliveEndsAwaiting == gKeepalive = "request" /\ gKeepalive' \in {"done", "orphan"}

\* While the scope is live, the keepalive loop ends only by reporting one
\* keepalive error, and never reports anything else; Run, if it then
\* returns a reported error first reported by the keepalive loop, returns
\* the keepalive error or, the context being cancelled, the cancellation;
\* and once the relay is dead a supervising Run returns.
KeepaliveFailureEndsRun ==
    /\ [][ (KeepaliveEndsAwaiting /\ ~ScopeDone) =>
             /\ events' = Append(events, "keepalive")
             /\ errCh' = Append(errCh, "keepalive") \/ rWake' = "keepalive" ]_vars
    /\ [][ (gKeepalive' # gKeepalive /\ events' # events) =>
             events' = Append(events, "keepalive") ]_vars
    /\ [][ (SupervisionEnds /\ ReportedErrors # <<>>
               /\ Head(ReportedErrors) = "keepalive") =>
             \/ rRet' = "keepalive"
             \/ rRet' = "Canceled" /\ parentDone ]_vars
    /\ (relay = "dead") ~> (rPC = "returned")

\* C33 as stated: a keepalive request that fails or gets no reply while the
\* scope is live ends the tunnel run with a keepalive error (unless another
\* outcome came first), and a keepalive loop that ends while the reply is
\* awaited and the scope is cancelled reports nothing.
C33_Original ==
    /\ KeepaliveFailureEndsRun
    /\ [][ (KeepaliveEndsAwaiting /\ ScopeDone) => events' = events ]_vars

\* C33, amended: as stated for a live scope; a keepalive loop that ends
\* while the reply is awaited and the scope is cancelled either reports
\* nothing or, its select having taken the failure or the timeout that was
\* ready as well, reports the keepalive error, which is buffered without
\* blocking and changes nothing for a Run that has returned.
C33_KeepaliveEndsTheRun ==
    /\ KeepaliveFailureEndsRun
    /\ [][ (KeepaliveEndsAwaiting /\ ScopeDone) =>
             \/ events' = events /\ errCh' = errCh /\ rWake' = rWake
             \/ /\ events' = Append(events, "keepalive")
                /\ rPC = "returned" =>
                      /\ errCh' = Append(errCh, "keepalive")
                      /\ Len(errCh') <= 3
                      /\ rRet' = rRet ]_vars

\* C33 witness: the relay died, the keepalive request got no reply in time,
\* and Run has returned the keepalive error.
C33_Witness ==
    /\ relay = "dead"
    /\ rPC = "returned"
    /\ rRet = "keepalive"
    /\ gKeepalive = "orphan"
    /\ events = <<"keepalive">>

\* ---- Errors of Accept (C34) ----

\* Accept returns an error to the accept loop, which deals with it.
AcceptErrorStep == gAccept = "accept" /\ gAccept' # "accept"

\* The errors reported so far include the accept error.
AcceptReported(log) == "accept" \in {log[i] : i \in 1..Len(log)}

\* C34: an error of Accept is reported, as the accept error, if and only if
\* tunnelCtx is not done when the loop looks at it; Run's teardown closes
\* the listener only after it has cancelled tunnelCtx, so the Accept error
\* that the closing causes is never reported; either way the accept loop
\* stops.
C34_AcceptErrorReportedUnlessCancelled ==
    /\ [][ AcceptErrorStep =>
             /\ gAccept' = "done"
             /\ ~ScopeDone => events' = Append(events, "accept")
             /\ ScopeDone => events' = events /\ errCh' = errCh /\ rWake' = rWake
             /\ listener = "closed" => events' = events ]_vars
    /\ [](listener = "closed" => scope = "cancelled")
    /\ [][ (AcceptReported(events') /\ ~AcceptReported(events))
              => AcceptErrorStep /\ ~ScopeDone ]_vars

\* C34 witness: Run has returned the Inactive sentinel and closed the
\* listener; the accept loop has stopped on the error of the closed
\* listener, and nothing but the sentinel was ever reported.
C34_Witness ==
    /\ BackInCaller
    /\ rRet = "Inactive"
    /\ listener = "closed"
    /\ gAccept = "done"
    /\ events = <<"Inactive">>

\* ---- Failures of proxied connections (C35) ----

\* proxyConn ends for connection i: the local dial failed, or a copy ended.
ProxyEnds(i) == proxy[i] \in {"dial", "copy"} /\ proxy'[i] \in {"failed", "done"}

\* C35: the end of a proxied connection, by a failed local dial or by a copy
\* ending in either direction, changes nothing of Run (it does not return),
\* of the error channel (nothing is reported) or of the accept loop, the
\* listener and the client; and the loop, at Accept on an open listener,
\* takes a further connection whatever became of the earlier ones.
C35_ProxyFailuresStayLocal ==
    /\ [][ (\E i \in Conns : ProxyEnds(i)) =>
             /\ rPC' = rPC /\ rRet' = rRet /\ rWake' = rWake
             /\ errCh' = errCh /\ events' = events
             /\ gAccept' = gAccept /\ gKeepalive' = gKeepalive
             /\ gHeartbeat' = gHeartbeat
             /\ listener' = listener /\ sshClient' = sshClient /\ scope' = scope
             /\ \A j \in Conns : ~ProxyEnds(j) => proxy'[j] = proxy[j] ]_vars
    /\ []((gAccept = "accept" /\ listener = "open"
              /\ \E i \in Conns : proxy[i] \in {"none", "failed", "done"})
             => ENABLED (\E i \in Conns : AcceptConn(i)))

\* C35 witness: the local dial of a connection has failed; Run still waits
\* in its select, nothing was reported, and the accept loop can take the
\* next connection.
C35_Witness ==
    /\ proxy[1] = "failed"
    /\ rPC = "parked"
    /\ rWake = "none"
    /\ events = <<>>
    /\ errCh = <<>>
    /\ gAccept = "accept"
    /\ ENABLED AcceptConn(1)

\* ---- Sends on the error channel (C36) ----

\* The supervisor loops that have not stopped, each of which may yet send.
Senders ==
    (IF gKeepalive \in {"wait", "request"} THEN {"keepalive"} ELSE {})
        \cup (IF gHeartbeat \in {"wait", "call"} THEN {"heartbeat"} ELSE {})
        \cup (IF gAccept = "accept" THEN {"accept"} ELSE {})

\* A step in which a value is sent on the error channel.
SendStep == events' # events /\ events'[Len(events')] # "Canceled"

\* C36: each of the keepalive, heartbeat and accept loops sends at most one
\* value on the error channel and has stopped when it has sent; so the
\* values in the channel and the loops still able to send never number
\* more than three, and a loop that has a value to send can send it in
\* every state, Run having returned or not.
C36_SendsNeverBlock ==
    /\ [][ SendStep =>
             /\ Len(events') = Len(events) + 1
             /\ Cardinality(Senders') = Cardinality(Senders) - 1
             /\ Senders' \subseteq Senders ]_vars
    /\ [](Len(ReportedErrors) <= 3
            /\ \A i, j \in 1..Len(ReportedErrors) :
                   ReportedErrors[i] = ReportedErrors[j] => i = j)
    /\ [](Len(errCh) + Cardinality(Senders) <= 3)
    /\ [](gKeepalive = "request" => ENABLED KeepaliveReply("failed"))
    /\ [](gHeartbeat = "call" => ENABLED HeartbeatReturns("inactive"))
    /\ [](gAccept = "accept" => ENABLED AcceptFails)

\* C36 witness: all three loops have sent; Run took the first value and
\* returned, and the two sent after that sit in the channel.
C36_Witness ==
    /\ rPC = "returned"
    /\ Len(ReportedErrors) = 3
    /\ Len(errCh) = 2
    /\ rRet = ReportedErrors[1]
    /\ Senders = {}

\* The number of consecutive Next calls the closed form is compared over.
MaxCalls == 9

RECURSIVE Pow(_, _)
Pow(b, n) == IF n = 0 THEN 1 ELSE b * Pow(b, n - 1)

\* min(initial * factor^n, max): the base after n consecutive Next calls.
BaseAfter(n) == Min(DefaultInitial * Pow(DefaultFactor, n), DefaultMax)

\* C37: current starts at 2 s and a Reset puts it back there; the base of
\* a Next is the current it finds; each Next takes current from
\* min(2 s * 2^n, 5 min) to min(2 s * 2^(n+1), 5 min), that is, doubles it
\* unless the double exceeds 5 min, and then leaves exactly 5 min, where
\* every further Next keeps it.
C37_BaseFollowsClosedForm ==
    /\ boCurrent = 2000
    /\ [](\E n \in 0..MaxCalls : boCurrent = BaseAfter(n))
    /\ [](\A t \in Threads : boPC[t] = "nextJittered" => boBase[t] = boCurrent)
    /\ [][ \A t \in Threads :
             /\ ResetSetStep(t) => boCurrent' = BaseAfter(0)
             /\ NextAdvanceStep(t) =>
                   /\ \A n \in 0..MaxCalls :
                          boCurrent = BaseAfter(n) => boCurrent' = BaseAfter(n + 1)
                   /\ boCurrent' = IF 2 * boCurrent > 300000
                                   THEN 300000 ELSE 2 * boCurrent
                   /\ boCurrent = 300000 => boCurrent' = 300000 ]_vars

\* C37 witness: a Next whose base was 256 s, the eighth since the start or
\* the last Reset, has left current at 5 min and not at 512 s.
C37_Witness ==
    \E t \in Threads :
        /\ boPC[t] = "nextAdvanced"
        /\ boBase[t] = BaseAfter(7)
        /\ boBase[t] = 256000
        /\ boCurrent = 300000

\* tunnel.Run returns the Inactive sentinel to runCycle.
InactiveRunStep == tpc # "idle" /\ tpc' = "idle" /\ lastErr' = "Inactive"

\* C38: a tunnel.Run that returns Inactive has lasted 60 s or more since
\* runCycle took its start time, the heartbeat that ended it having waited
\* for the ticker's first period; so runCycle resets Backoff, and the
\* 5-minute wait that follows is entered, and spent, with the base at 2 s.
C38_InactiveRunWasStable ==
    /\ [][ InactiveRunStep =>
             /\ elapsed * heartbeatInterval >= 60000
             /\ hbSent' # "none"
             /\ lastStable'
             /\ current' = 2000
             /\ failsSinceStable' = 0
             /\ pc' = "sleep"
             /\ sleepKind' = "inactive"
             /\ sleepFor' = 300000 ]_vars
    /\ []((pc = "sleep" /\ sleepKind = "inactive" /\ cyc.tunnel) =>
             (current = 2000 /\ lastStable))
    /\ []((hb = "call" /\ tpc = "supervise") => elapsed >= 1)

\* C38 witness: the 5-minute wait after a heartbeat answered "inactive",
\* in a cycle that began with the base advanced by an earlier failure.
C38_Witness ==
    /\ pc = "sleep"
    /\ sleepKind = "inactive"
    /\ cyc.tunnel
    /\ lastErr = "Inactive"
    /\ curAtCycleStart > 2000
    /\ current = 2000

\* A tunnel of this agent exists: an SSH client to the relay, or a relay
\* listener on one, is open.
TunnelExists == tunClient = "open" \/ tunListener = "open"

\* C39: the SSH client and the relay listener are open only inside
\* tunnel.Run, after its dial; when runCycle hands Run's result to
\* Agent.Run both are closed, so they are closed during every wait and
\* every FetchConfig, and a client is dialled only when the client and the
\* listener of the run before are closed.
C39_AtMostOneTunnel ==
    /\ [](TunnelExists => (pc = "tunnel" /\ tpc \in {"listen", "supervise"}))
    /\ [](pc \in {"sleep", "fetch", "returned"} => ~TunnelExists)
    /\ [](tunListener = "open" => tunClient = "open")
    /\ [][ (pc = "tunnel" /\ pc' # "tunnel") => ~TunnelExists' ]_vars
    /\ [][ (tpc = "dial" /\ tpc' = "listen") =>
              (~TunnelExists /\ tunClient' = "open") ]_vars

\* C39 witness: the client of a second tunnel run is open, in a run that
\* follows one whose listener was open and is closed.
C39_Witness ==
    /\ tpc = "listen"
    /\ tunClient = "open"
    /\ tunListener = "closed"

\* The callback returned nil: the handshake goes on with the key trusted.
Trusted(verdict) == verdict \in {"accepted", "tofu"}

\* C40: a handshake with a host that has no entry is accepted only when
\* the store was opened and the entry written, and the store then holds
\* the entry; when the open or the write fails the callback returns an
\* error and the store is as it was; so after every accepted handshake
\* the presented key is among the keys the store records for the host.
C40_TrustedOnlyIfRecorded ==
    [][ HandshakeStep =>
          LET last == khLast'
              unseen == /\ last.load
                        /\ RecordedKeys(Entries(khFile), last.hostname) = {}
          IN  /\ (unseen /\ last.save = "ok") =>
                    /\ last.verdict = "tofu"
                    /\ khFile' = Append(Entries(khFile),
                                        [pattern |-> RecordedPattern(last.hostname),
                                         key |-> last.key])
              /\ (unseen /\ last.save # "ok") =>
                    /\ last.verdict = "saveErr"
                    /\ ~Trusted(last.verdict)
                    /\ khFile' = khFile
              /\ last.verdict = "tofu" => (unseen /\ last.save = "ok")
              /\ Trusted(last.verdict) =>
                    last.key \in RecordedKeys(Entries(khFile'), last.hostname) ]_vars

\* C40 witness: a host with no entry presented its key, the write to the
\* store failed, and the handshake was rejected with the store unchanged.
C40_Witness ==
    /\ khLast.verdict = "saveErr"
    /\ khLast.save = "writeErr"
    /\ khFile # NoStore
    /\ RecordedKeys(Entries(khFile), khLast.hostname) = {}

====
